---- MODULE Spec2Model ----
(***************************************************************************)
(* Conflict-suite construction, split assignment and integrity validation  *)
(* of the carm.data package (construction.py, transforms.py, labeling.py,  *)
(* integrity.py), as a state machine over bounded inputs.                  *)
(*                                                                         *)
(* Conventions.                                                            *)
(*  - Identifiers that the code sorts or compares (example_id, base_id,    *)
(*    variant_id, source_image_id, image_path) are sequences of one-       *)
(*    character strings, ordered by code point as Python orders str.       *)
(*  - text_input / question are sequences of lower-case word tokens (the   *)
(*    result of re.findall(r"[a-z0-9]+", text.lower())).                   *)
(*  - Enum members are their string values (the enums are str-mixins).     *)
(*  - None and "" are both the empty sequence where the code only tests    *)
(*    truthiness (x or y).                                                 *)
(*  - random.Random(seed) is a seed-determined generator; the Mersenne     *)
(*    twister is replaced by a small linear congruential generator, while  *)
(*    choice() and shuffle() are the library's algorithms on top of it.    *)
(*  - A call that raises records the exception's name in place of a value: *)
(*    an IntegrityError of the validator ends the build with no rows; a    *)
(*    call of derive_oracle_action that Python cannot bind to the          *)
(*    signature in labeling.py leaves "TypeError" as the row's             *)
(*    oracle_action, so that the other fields of the rows stay observable. *)
(***************************************************************************)
EXTENDS Integers, Sequences, FiniteSets, TLC

VARIABLES
    op,          \* which operation this behaviour exercises
    pc,          \* position: "start", then the operation's steps
    bases,       \* build_conflict_suite: base_examples
    cfg,         \* build_conflict_suite: keyword arguments
    suite,       \* build_conflict_suite: returned rows (first run)
    manifest,    \* build_conflict_suite: returned manifest (first run)
    result,      \* "none" | "ok" | the exception raised (first run)
    suite2,      \* rows returned by the second run on the same input
    manifest2,   \* manifest returned by the second run
    result2,     \* outcome of the second run
    vin,         \* validate_split_integrity: input (rows and arguments)
    vout,        \* validate_split_integrity: outcome
    lin,         \* derive_oracle_action: the call (args, kwargs)
    lout,        \* derive_oracle_action: value returned or exception raised
    sin,         \* sample_pilot_by_base: input (rows, base_sample_size, seed)
    sout,        \* sample_pilot_by_base: the rows and the manifest returned
    ein,         \* to_dict: the example serialized
    dumped,      \* the dict written by to_dict or handed to from_dict
    parsed,      \* from_dict: the example parsed or the exception raised
    pin,         \* derive_reliability_target, text_edit: the arguments of the call
    pout         \* derive_reliability_target, text_edit: the value returned

vars == <<op, pc, bases, cfg, suite, manifest, result,
          suite2, manifest2, result2, vin, vout, lin, lout, sin, sout,
          ein, dumped, parsed, pin, pout>>

-----------------------------------------------------------------------------
(* Bounds of the model *)

MaxBases == 3

MaxRows == 2

MaxSplitRows == 4

MaxSampleRows == 4

MaxSampleSize == 3

MaxSeverityArg == 6

-----------------------------------------------------------------------------
(* Python str as character sequences *)

Alphabet ==
    << "#", "-", "0", "1", "2", "3", "4", "5", "6", "7", "8", "9", ":", "_",
       "a", "b", "c", "d", "e", "f", "g", "h", "i", "j", "k", "l", "m",
       "n", "o", "p", "q", "r", "s", "t", "u", "v", "w", "x", "y", "z", "|" >>

Code ==
    [ c \in { Alphabet[i] : i \in 1..Len(Alphabet) } |->
        CHOOSE i \in 1..Len(Alphabet) : Alphabet[i] = c ]

RECURSIVE StrLessFrom(_, _, _)
StrLessFrom(a, b, i) ==
    IF i > Len(b) THEN FALSE
    ELSE IF i > Len(a) THEN TRUE
    ELSE IF a[i] = b[i] THEN StrLessFrom(a, b, i + 1)
    ELSE Code[a[i]] < Code[b[i]]

StrLess(a, b) == StrLessFrom(a, b, 1)

Range(s) == { s[i] : i \in 1..Len(s) }

Digits == << "0", "1", "2", "3", "4", "5", "6", "7", "8", "9" >>

RECURSIVE NatStr(_)
NatStr(n) ==
    IF n < 10 THEN << Digits[n + 1] >>
    ELSE NatStr(n \div 10) \o << Digits[(n % 10) + 1] >>

IntStr(n) == IF n < 0 THEN << "-" >> \o NatStr(0 - n) ELSE NatStr(n)

Sep == << ":", ":" >>

S_clean == << "c", "l", "e", "a", "n" >>

S_swap_easy == << "s", "w", "a", "p", "_", "e", "a", "s", "y" >>

S_swap_hard == << "s", "w", "a", "p", "_", "h", "a", "r", "d" >>

S_text_edit == << "t", "e", "x", "t", "_", "e", "d", "i", "t" >>

S_vision_corrupt_s ==
    << "v", "i", "s", "i", "o", "n", "_", "c", "o", "r", "r", "u", "p", "t",
       "_", "s" >>

S_both == << "b", "o", "t", "h" >>

(* insertion sort of a sequence of records by a string key; stable, as     *)
(* Python's sorted() is                                                    *)
RECURSIVE InsertById(_, _)
InsertById(sorted, ex) ==
    IF sorted = << >> THEN << ex >>
    ELSE IF StrLess(ex.example_id, sorted[Len(sorted)].example_id)
         THEN InsertById(SubSeq(sorted, 1, Len(sorted) - 1), ex)
                  \o << sorted[Len(sorted)] >>
         ELSE Append(sorted, ex)

RECURSIVE SortById(_)
SortById(rows) ==
    IF rows = << >> THEN << >>
    ELSE InsertById(SortById(SubSeq(rows, 1, Len(rows) - 1)), rows[Len(rows)])

RECURSIVE InsertStr(_, _)
InsertStr(sorted, s) ==
    IF sorted = << >> THEN << s >>
    ELSE IF StrLess(s, sorted[Len(sorted)])
         THEN InsertStr(SubSeq(sorted, 1, Len(sorted) - 1), s)
                  \o << sorted[Len(sorted)] >>
         ELSE Append(sorted, s)

RECURSIVE SortStrs(_)
SortStrs(ss) ==
    IF ss = << >> THEN << >>
    ELSE InsertStr(SortStrs(SubSeq(ss, 1, Len(ss) - 1)), ss[Len(ss)])

(* every order in which a set can be iterated *)
Enumerations(S) ==
    { e \in [1..Cardinality(S) -> S] : \A i, j \in DOMAIN e : i # j => e[i] # e[j] }

RECURSIVE SortedInts(_)
SortedInts(S) ==
    IF S = {} THEN << >>
    ELSE LET m == CHOOSE x \in S : \A y \in S : x <= y
         IN  << m >> \o SortedInts(S \ {m})

Max(a, b) == IF a >= b THEN a ELSE b

Min(a, b) == IF a <= b THEN a ELSE b

MaxOf(s) == CHOOSE x \in Range(s) : \A y \in Range(s) : y <= x

-----------------------------------------------------------------------------
(* schema.py: the closed vocabularies *)

TRAIN == "train"
VAL == "val"
TEST_ID == "test_id"
TEST_OOD_FAMILY == "test_ood_family"
TEST_OOD_SEVERITY == "test_ood_severity"
TEST_OOD_HARD_SWAP == "test_ood_hard_swap"

Split == { TRAIN, VAL, TEST_ID, TEST_OOD_FAMILY, TEST_OOD_SEVERITY, TEST_OOD_HARD_SWAP }

Family == { "none", "existence", "count", "attribute_color" }

Operator == { "clean", "swap_easy", "swap_hard", "text_edit", "vision_corrupt", "both" }

CorruptModality == { "none", "vision", "text", "both" }

EvidenceModality == { "vision_required", "text_required", "both", "either" }

Action == { "trust_vision", "trust_text", "require_agreement", "abstain" }

(* copy-with-override of a record: dataclasses.replace *)
replace(ex, overrides) ==
    [ f \in DOMAIN ex |-> IF f \in DOMAIN overrides THEN overrides[f] ELSE ex[f] ]

AnswerType == { "boolean", "integer", "color", "unknown" }

DATASET_RECORD_VERSION == "v1"

_FAMILY_ALIASES ==
    [ k \in { "none", "object", "attribute", "attribute_color", "relation", "count",
              "existence" } |->
        CASE k = "none" -> "none"
          [] k = "object" -> "existence"
          [] k = "attribute" -> "attribute_color"
          [] k = "attribute_color" -> "attribute_color"
          [] k = "relation" -> "existence"
          [] k = "count" -> "count"
          [] k = "existence" -> "existence" ]

_OPERATOR_ALIASES ==
    [ k \in { "clean", "caption_swap", "caption_swap_same_topic", "swap_easy", "swap_hard",
              "text_edit", "text_edit_count", "text_edit_relation", "text_edit_attribute",
              "corrupt", "vision_corrupt", "vision_blur", "vision_occlusion",
              "vision_distractor", "both" } |->
        CASE k = "clean" -> "clean"
          [] k \in { "caption_swap", "swap_easy" } -> "swap_easy"
          [] k \in { "caption_swap_same_topic", "swap_hard" } -> "swap_hard"
          [] k \in { "text_edit", "text_edit_count", "text_edit_relation",
                     "text_edit_attribute" } -> "text_edit"
          [] k \in { "corrupt", "vision_corrupt", "vision_blur", "vision_occlusion",
                     "vision_distractor" } -> "vision_corrupt"
          [] k = "both" -> "both" ]

_SPLIT_ALIASES ==
    [ k \in Split \cup { "test" } |-> IF k = "test" THEN TEST_ID ELSE k ]

_CORRUPT_MODALITY_ALIASES == [ k \in CorruptModality |-> k ]

(* str.lower() and str.strip() on the raw values in reach: the values with  *)
(* capitals or blanks that the parsed dicts carry, every other value is     *)
(* already lower-case and bare                                             *)
lower(raw) ==
    CASE raw = "Attribute" -> "attribute"
      [] raw = "VAL" -> "val"
      [] raw = "Vision_Blur" -> "vision_blur"
      [] raw = "TEXT" -> "text"
      [] raw = " Integer " -> " integer "
      [] raw = "Trust_Text" -> "trust_text"
      [] OTHER -> raw

strip(raw) ==
    CASE raw = " integer " -> "integer"
      [] raw = " Integer " -> "Integer"
      [] raw = " " -> ""
      [] OTHER -> raw

(* item.get(key, default) *)
get(item, key, default) == IF key \in DOMAIN item THEN item[key] ELSE default

(* str.split("::") *)
RECURSIVE SplitSepFrom(_, _, _)
SplitSepFrom(text, i, part) ==
    IF i > Len(text) THEN << part >>
    ELSE IF i < Len(text) /\ text[i] = ":" /\ text[i + 1] = ":"
         THEN << part >> \o SplitSepFrom(text, i + 2, << >>)
         ELSE SplitSepFrom(text, i + 1, Append(part, text[i]))

SplitSep(text) == SplitSepFrom(text, 1, << >>)

S_unknown == << "u", "n", "k", "n", "o", "w", "n" >>

RequiredKeys == { "image_path", "text_input", "question", "gold_answer" }

(* variant: the legacy alias keys are read first *)
from_dict_legacy_first(item) ==
    LET raw_family == lower(get(item, "conflict_type", get(item, "family", "none")))
        raw_operator == lower(get(item, "corruption_family", get(item, "operator", "clean")))
        raw_corrupt_modality ==
            lower(get(item, "corrupted_modality", get(item, "corrupt_modality", "none")))
        raw_split == lower(get(item, "split", "train"))
        family == _FAMILY_ALIASES[raw_family]
        example_id == get(item, "example_id", S_unknown)
        parts == SplitSep(example_id)
        base_id == get(item, "base_id", parts[1])
        variant_id == get(item, "variant_id", parts[Len(parts)])
        raw_answer_type == strip(lower(get(item, "answer_type", "")))
        raw_evidence == lower(get(item, "evidence_modality", "either"))
        raw_action == get(item, "oracle_action", "require_agreement")
    IN  IF \/ raw_family \notin DOMAIN _FAMILY_ALIASES
           \/ raw_operator \notin DOMAIN _OPERATOR_ALIASES
           \/ raw_corrupt_modality \notin DOMAIN _CORRUPT_MODALITY_ALIASES
           \/ raw_split \notin DOMAIN _SPLIT_ALIASES
           \/ (raw_answer_type # "" /\ raw_answer_type \notin AnswerType)
           \/ raw_evidence \notin EvidenceModality
        THEN [ raised |-> "ValueError" ]
        ELSE IF ~(RequiredKeys \subseteq DOMAIN item) THEN [ raised |-> "KeyError" ]
        ELSE IF raw_action \notin Action THEN [ raised |-> "ValueError" ]
        ELSE
          [ raised |-> "none",
            example |->
              [ example_id |-> get(item, "example_id", base_id \o Sep \o variant_id),
                base_id |-> base_id,
                variant_id |-> variant_id,
                image_path |-> item["image_path"],
                text_input |-> item["text_input"],
                question |-> item["question"],
                gold_answer |-> item["gold_answer"],
                split |-> _SPLIT_ALIASES[raw_split],
                family |-> family,
                operator |-> _OPERATOR_ALIASES[raw_operator],
                corrupt_modality |-> _CORRUPT_MODALITY_ALIASES[raw_corrupt_modality],
                severity |-> get(item, "severity", 0),
                answer_type |->
                    IF raw_answer_type = ""
                    THEN CASE family = "existence" -> "boolean"
                           [] family = "count" -> "integer"
                           [] family = "attribute_color" -> "color"
                           [] OTHER -> "unknown"
                    ELSE raw_answer_type,
                oracle_action |-> raw_action,
                source_image_id |-> get(item, "source_image_id", << >>),
                template_id |-> get(item, "template_id", << >>),
                evidence_modality |-> raw_evidence,
                heldout_family_flag |-> get(item, "heldout_family_flag", FALSE),
                heldout_severity_flag |-> get(item, "heldout_severity_flag", FALSE),
                hard_swap_flag |-> get(item, "hard_swap_flag", FALSE),
                metadata |-> get(item, "metadata", << >>),
                record_version |-> get(item, "record_version", DATASET_RECORD_VERSION) ] ]

(* ConflictExample.from_dict: the example parsed, or the exception raised; *)
(* the checks raise in the order of the code                               *)
from_dict(item) ==
    LET raw_family == lower(get(item, "family", get(item, "conflict_type", "none")))
        raw_operator == lower(get(item, "operator", get(item, "corruption_family", "clean")))
        raw_corrupt_modality ==
            lower(get(item, "corrupt_modality", get(item, "corrupted_modality", "none")))
        raw_split == lower(get(item, "split", "train"))
        family == _FAMILY_ALIASES[raw_family]
        example_id == get(item, "example_id", S_unknown)
        parts == SplitSep(example_id)
        base_id == get(item, "base_id", parts[1])
        variant_id == get(item, "variant_id", parts[Len(parts)])
        raw_answer_type == strip(lower(get(item, "answer_type", "")))
        raw_evidence == lower(get(item, "evidence_modality", "either"))
        raw_action == get(item, "oracle_action", "require_agreement")
    IN  IF \/ raw_family \notin DOMAIN _FAMILY_ALIASES
           \/ raw_operator \notin DOMAIN _OPERATOR_ALIASES
           \/ raw_corrupt_modality \notin DOMAIN _CORRUPT_MODALITY_ALIASES
           \/ raw_split \notin DOMAIN _SPLIT_ALIASES
           \/ (raw_answer_type # "" /\ raw_answer_type \notin AnswerType)
           \/ raw_evidence \notin EvidenceModality
        THEN [ raised |-> "ValueError" ]
        ELSE IF ~(RequiredKeys \subseteq DOMAIN item) THEN [ raised |-> "KeyError" ]
        ELSE IF raw_action \notin Action THEN [ raised |-> "ValueError" ]
        ELSE
          [ raised |-> "none",
            example |->
              [ example_id |-> get(item, "example_id", base_id \o Sep \o variant_id),
                base_id |-> base_id,
                variant_id |-> variant_id,
                image_path |-> item["image_path"],
                text_input |-> item["text_input"],
                question |-> item["question"],
                gold_answer |-> item["gold_answer"],
                split |-> _SPLIT_ALIASES[raw_split],
                family |-> family,
                operator |-> _OPERATOR_ALIASES[raw_operator],
                corrupt_modality |-> _CORRUPT_MODALITY_ALIASES[raw_corrupt_modality],
                severity |-> get(item, "severity", 0),
                answer_type |->
                    IF raw_answer_type = ""
                    THEN CASE family = "existence" -> "boolean"
                           [] family = "count" -> "integer"
                           [] family = "attribute_color" -> "color"
                           [] OTHER -> "unknown"
                    ELSE raw_answer_type,
                oracle_action |-> raw_action,
                source_image_id |-> get(item, "source_image_id", << >>),
                template_id |-> get(item, "template_id", << >>),
                evidence_modality |-> raw_evidence,
                heldout_family_flag |-> get(item, "heldout_family_flag", FALSE),
                heldout_severity_flag |-> get(item, "heldout_severity_flag", FALSE),
                hard_swap_flag |-> get(item, "hard_swap_flag", FALSE),
                metadata |-> get(item, "metadata", << >>),
                record_version |-> get(item, "record_version", DATASET_RECORD_VERSION) ] ]

LegacyKeys == { "conflict_type", "corrupted_modality", "corruption_family" }

(* ConflictExample.to_dict: asdict with the enums as their values, then the *)
(* three backward-compatible alias keys                                     *)
to_dict(ex) ==
    [ k \in DOMAIN ex \cup LegacyKeys |->
        CASE k = "conflict_type" -> ex.family
          [] k = "corrupted_modality" -> ex.corrupt_modality
          [] k = "corruption_family" -> ex.operator
          [] OTHER -> ex[k] ]

-----------------------------------------------------------------------------
(* labeling.py *)

ORACLE_ACTION_TABLE ==
    [ k \in { <<e, c>> : e \in EvidenceModality, c \in { "none", "vision", "text" } } |->
        CASE k = << "vision_required", "none" >> -> "trust_vision"
          [] k = << "text_required", "none" >> -> "trust_text"
          [] k = << "both", "none" >> -> "require_agreement"
          [] k = << "either", "none" >> -> "require_agreement"
          [] k = << "vision_required", "vision" >> -> "abstain"
          [] k = << "text_required", "vision" >> -> "trust_text"
          [] k = << "both", "vision" >> -> "abstain"
          [] k = << "either", "vision" >> -> "trust_text"
          [] k = << "vision_required", "text" >> -> "trust_vision"
          [] k = << "text_required", "text" >> -> "abstain"
          [] k = << "both", "text" >> -> "abstain"
          [] k = << "either", "text" >> -> "trust_vision" ]

(* dict subscription raises KeyError on a key the table lacks *)
derive_oracle_action(evidence_modality, corrupted_modality) ==
    IF << evidence_modality, corrupted_modality >> \in DOMAIN ORACLE_ACTION_TABLE
    THEN ORACLE_ACTION_TABLE[<< evidence_modality, corrupted_modality >>]
    ELSE "KeyError"

derive_oracle_action_params == << "evidence_modality", "corrupted_modality" >>

(* Python's binding of a call with positional arguments args and keyword    *)
(* arguments kwargs to the signature: too many positionals, an unknown      *)
(* keyword, a parameter given twice or a parameter left unbound raise       *)
(* TypeError before the body runs                                           *)
(* kwargs is a sequence of <<name, value>> pairs                             *)
KwNames(kwargs) == { kwargs[i][1] : i \in 1..Len(kwargs) }

KwValue(kwargs, name) == kwargs[CHOOSE i \in 1..Len(kwargs) : kwargs[i][1] = name][2]

call_derive_oracle_action(args, kwargs) ==
    LET params == derive_oracle_action_params
        bound(i) == IF i <= Len(args) THEN args[i] ELSE KwValue(kwargs, params[i])
    IN  IF \/ Len(args) > Len(params)
           \/ \E k \in KwNames(kwargs) : k \notin Range(params)
           \/ \E i \in 1..Len(params) : i <= Len(args) /\ params[i] \in KwNames(kwargs)
           \/ \E i \in 1..Len(params) : i > Len(args) /\ params[i] \notin KwNames(kwargs)
        THEN "TypeError"
        ELSE derive_oracle_action(bound(1), bound(2))

NoKwargs == << >>

MAX_SEVERITY_DEFAULT == 3

(* the floats r_v and r_t are kept as whole ten-thousandths, the grain of  *)
(* round(x, 4); Unit is 1.0                                                *)
Unit == 10000

(* <<r_v, r_t>> *)
_base_reliability(evidence_modality) ==
    CASE evidence_modality = "vision_required" -> << Unit, 0 >>
      [] evidence_modality = "text_required" -> << 0, Unit >>
      [] evidence_modality = "both" -> << Unit, Unit >>
      [] OTHER -> << Unit \div 2, Unit \div 2 >>

(* round(numerator / denominator, 4) in ten-thousandths, for a quotient    *)
(* that is not negative; no quotient in reach lies half-way                *)
Round4(numerator, denominator) == (2 * numerator + denominator) \div (2 * denominator)

(* max(0.05, r * (1.0 - penalty)) with penalty = pn / pd, then round(., 4) *)
Penalize(r, pn, pd) ==
    IF r * (pd - pn) * 20 < Unit * pd THEN Unit \div 20
    ELSE Round4(r * (pd - pn), pd)

(* variant: the penalty shrinks as the severity grows *)
derive_reliability_target_rewarding(evidence_modality, corrupted_modality, severity, max_severity) ==
    LET base == _base_reliability(evidence_modality)
        clamped == Max(0, Min(severity, max_severity))
        penalty == IF max_severity > 0
                   THEN IF 5 * (max_severity - clamped) >= max_severity
                        THEN << max_severity - clamped, max_severity >> ELSE << 1, 5 >>
                   ELSE << 0, 1 >>
    IN  CASE corrupted_modality = "vision" ->
               [ r_v |-> Penalize(base[1], penalty[1], penalty[2]), r_t |-> base[2] ]
          [] corrupted_modality = "text" ->
               [ r_v |-> base[1], r_t |-> Penalize(base[2], penalty[1], penalty[2]) ]
          [] OTHER -> [ r_v |-> base[1], r_t |-> base[2] ]

(* penalty is the fraction <<numerator, denominator>> of                  *)
(* max(0.2, severity / max_severity); only the branches for VISION and    *)
(* TEXT change a value                                                     *)
derive_reliability_target(evidence_modality, corrupted_modality, severity, max_severity) ==
    LET base == _base_reliability(evidence_modality)
        clamped == Max(0, Min(severity, max_severity))
        penalty == IF max_severity > 0
                   THEN IF 5 * clamped >= max_severity
                        THEN << clamped, max_severity >> ELSE << 1, 5 >>
                   ELSE << 0, 1 >>
    IN  CASE corrupted_modality = "vision" ->
               [ r_v |-> Penalize(base[1], penalty[1], penalty[2]), r_t |-> base[2] ]
          [] corrupted_modality = "text" ->
               [ r_v |-> base[1], r_t |-> Penalize(base[2], penalty[1], penalty[2]) ]
          [] OTHER -> [ r_v |-> base[1], r_t |-> base[2] ]


-----------------------------------------------------------------------------
(* random.Random(seed): generator state, choice and shuffle *)

Random(seed) == (seed * 37 + 11) % 101

RngStep(state) == (state * 23 + 29) % 101

(* _randbelow(n): <<value, next state>> *)
randbelow(state, n) == << RngStep(state) % n, RngStep(state) >>

(* rng.choice(seq): <<element, next state>> *)
choice(state, seq) ==
    LET r == randbelow(state, Len(seq))
    IN  << seq[r[1] + 1], r[2] >>

Swap(x, i, j) == [ x EXCEPT ![i] = x[j], ![j] = x[i] ]

(* rng.shuffle(x): for i in reversed(range(1, len(x))): j = randbelow(i+1);  *)
(* x[i], x[j] = x[j], x[i]   (0-based i, j)                                 *)
RECURSIVE ShuffleFrom(_, _, _)
ShuffleFrom(state, x, i) ==
    IF i < 1 THEN x
    ELSE LET r == randbelow(state, i + 1)
         IN  ShuffleFrom(r[2], Swap(x, i + 1, r[1] + 1), i - 1)

shuffle(state, x) == ShuffleFrom(state, x, Len(x) - 1)

(* the generator after n draws *)
RECURSIVE RngAfter(_, _)
RngAfter(state, n) == IF n <= 0 THEN state ELSE RngAfter(RngStep(state), n - 1)

-----------------------------------------------------------------------------
(* transforms.py *)

STOPWORDS ==
    { "a", "an", "the", "is", "are", "on", "in", "at", "of", "to", "for",
      "there", "this", "that", "these", "those" }

NUMBER_WORDS ==
    << "zero", "one", "two", "three", "four", "five", "six", "seven", "eight",
       "nine", "ten" >>

_derived_id(base_id, suffix) == base_id \o Sep \o suffix

(* variant: the row is labelled swap_easy whatever operator is asked for *)
caption_swap_always_easy(example, donor_text, operator, hard_swap_flag, seed) ==
    LET suffix == IF operator = "swap_hard" THEN S_swap_hard ELSE S_swap_easy
        swapped == replace(example,
                     [ example_id |-> _derived_id(example.base_id, suffix),
                       variant_id |-> suffix,
                       text_input |-> donor_text,
                       operator |-> "swap_easy",
                       corrupt_modality |-> "text",
                       severity |-> 1,
                       hard_swap_flag |-> hard_swap_flag ])
    IN  replace(swapped,
          [ oracle_action |->
              call_derive_oracle_action(<< swapped.corrupt_modality >>, NoKwargs) ])

caption_swap(example, donor_text, operator, hard_swap_flag, seed) ==
    LET suffix == IF operator = "swap_hard" THEN S_swap_hard ELSE S_swap_easy
        swapped == replace(example,
                     [ example_id |-> _derived_id(example.base_id, suffix),
                       variant_id |-> suffix,
                       text_input |-> donor_text,
                       operator |-> operator,
                       corrupt_modality |-> "text",
                       severity |-> 1,
                       hard_swap_flag |-> hard_swap_flag ])
    IN  replace(swapped,
          [ oracle_action |->
              call_derive_oracle_action(<< swapped.corrupt_modality >>, NoKwargs) ])

(* decimal numeral tokens: str(n) and int(token) for the numerals in reach *)
RECURSIVE NumTok(_)
NumTok(n) ==
    IF n < 10 THEN Digits[n + 1] ELSE NumTok(n \div 10) \o Digits[(n % 10) + 1]

TokNum ==
    [ t \in { NumTok(n) : n \in 0..100 } |-> CHOOSE n \in 0..100 : NumTok(n) = t ]

(* position of the first token of text that is in tokens, 0 for no match *)
IndexOf(text, tokens) ==
    IF \E i \in 1..Len(text) : text[i] \in tokens
    THEN CHOOSE i \in 1..Len(text) :
            text[i] \in tokens /\ \A j \in 1..(i - 1) : text[j] \notin tokens
    ELSE 0

(* text without a trailing "." followed by more words *)
AppendWords(text, words) == text \o words

_replace_first_number_token(text) ==
    LET m == IndexOf(text, DOMAIN TokNum)
        (* first word of NUMBER_WORDS, in table order, that occurs in text *)
        w == IF \E k \in 1..Len(NUMBER_WORDS) : NUMBER_WORDS[k] \in Range(text)
             THEN CHOOSE k \in 1..Len(NUMBER_WORDS) :
                     /\ NUMBER_WORDS[k] \in Range(text)
                     /\ \A l \in 1..(k - 1) : NUMBER_WORDS[l] \notin Range(text)
             ELSE 0
    IN  IF m > 0
        THEN LET n == TokNum[text[m]]
                 repl == NumTok(IF n < 99 THEN n + 1 ELSE n - 1)
             IN  << [ text EXCEPT ![m] = repl ], TRUE >>
        ELSE IF w > 0
        THEN LET n == w - 1
                 repl_n == IF n < 10 THEN n + 1 ELSE n - 1
                 repl_w == IF repl_n \in 0..10 THEN NUMBER_WORDS[repl_n + 1] ELSE "one"
             IN  << [ text EXCEPT ![IndexOf(text, { NUMBER_WORDS[w] })] = repl_w ], TRUE >>
        ELSE << text, FALSE >>

AuxVerbs == { "is", "are", "was", "were", "has", "have", "do", "does", "did", "can" }

RemoveAt(text, i) == SubSeq(text, 1, i - 1) \o SubSeq(text, i + 1, Len(text))

InsertAfter(text, i, w) == SubSeq(text, 1, i) \o << w >> \o SubSeq(text, i + 1, Len(text))

_flip_negation(text) ==
    IF IndexOf(text, { "not" }) > 0 THEN RemoveAt(text, IndexOf(text, { "not" }))
    ELSE IF IndexOf(text, AuxVerbs) > 0 THEN InsertAfter(text, IndexOf(text, AuxVerbs), "not")
    ELSE << "not" >> \o text

_edit_color(text, color_vocab, seed) ==
    LET rng == Random(seed)
        hit == IF \E k \in 1..Len(color_vocab) : color_vocab[k] \in Range(text)
               THEN CHOOSE k \in 1..Len(color_vocab) :
                       /\ color_vocab[k] \in Range(text)
                       /\ \A l \in 1..(k - 1) : color_vocab[l] \notin Range(text)
               ELSE 0
    IN  IF hit > 0
        THEN LET color == color_vocab[hit]
                 Other(c) == c # color
                 alternatives == SelectSeq(color_vocab, Other)
             IN  IF alternatives = << >> THEN text
                 ELSE [ text EXCEPT ![IndexOf(text, { color })] = choice(rng, alternatives)[1] ]
        ELSE LET replacement == IF color_vocab # << >> THEN choice(rng, color_vocab)[1]
                                ELSE "red"
             IN  AppendWords(text, << replacement >>)

text_edit(example, color_vocab, seed) ==
    LET edited_text ==
            CASE example.family = "count" ->
                   LET r == _replace_first_number_token(example.text_input)
                   IN  IF r[2] THEN r[1]
                       ELSE AppendWords(example.text_input, << "there", "are", "3", "objects" >>)
              [] example.family = "existence" -> _flip_negation(example.text_input)
              [] example.family = "attribute_color" ->
                   _edit_color(example.text_input, color_vocab, seed)
              [] OTHER -> example.text_input
        edited == replace(example,
                    [ example_id |-> _derived_id(example.base_id, S_text_edit),
                      variant_id |-> S_text_edit,
                      text_input |-> edited_text,
                      operator |-> "text_edit",
                      corrupt_modality |-> "text",
                      severity |-> 1 ])
    IN  replace(edited,
          [ oracle_action |->
              call_derive_oracle_action(<< edited.corrupt_modality >>, NoKwargs) ])

vision_corrupt(example, corruption_type, severity) ==
    LET variant_id == S_vision_corrupt_s \o IntStr(severity)
        out == replace(example,
                 [ example_id |-> _derived_id(example.base_id, variant_id),
                   variant_id |-> variant_id,
                   image_path |-> example.image_path,
                   operator |-> "vision_corrupt",
                   corrupt_modality |-> "vision",
                   severity |-> severity ])
    IN  replace(out,
          [ oracle_action |->
              call_derive_oracle_action(<< out.corrupt_modality >>, NoKwargs) ])

-----------------------------------------------------------------------------
(* integrity.py *)

ID_SPLITS == << TRAIN, VAL, TEST_ID >>

(* variant: the ids are joined in the order given *)
compute_manifest_hash_unsorted(example_ids) == << "sha256", example_ids >>

(* sha256 of the newline-joined sorted ids: an injective image of the sorted list *)
compute_manifest_hash(example_ids) == << "sha256", SortStrs(example_ids) >>

RECURSIVE IdsOfSplit(_, _)
IdsOfSplit(examples, split) ==
    IF examples = << >> THEN << >>
    ELSE LET rest == IdsOfSplit(SubSeq(examples, 1, Len(examples) - 1), split)
             ex == examples[Len(examples)]
         IN  IF ex.split = split THEN Append(rest, ex.example_id) ELSE rest

_hash_by_split(examples) ==
    [ split \in { examples[i].split : i \in 1..Len(examples) } |->
        compute_manifest_hash(IdsOfSplit(examples, split)) ]

_count_by_split(examples) ==
    [ split \in { examples[i].split : i \in 1..Len(examples) } |->
        Cardinality({ i \in 1..Len(examples) : examples[i].split = split }) ]

(* "prefix before the first |" of a path: image_path.split("|")[0] *)
RECURSIVE SplitBar0(_)
SplitBar0(path) ==
    IF path = << >> \/ path[1] = "|" THEN << >>
    ELSE << path[1] >> \o SplitBar0(Tail(path))

source_key(ex) ==
    IF ex.source_image_id # << >> THEN ex.source_image_id ELSE SplitBar0(ex.image_path)

NoneValue == "None"

NoError == [ raised |-> "none", message |-> "", subject |-> << >>, between |-> << >> ]

IntegrityError(message, subject, between) ==
    [ raised |-> "IntegrityError", message |-> message, subject |-> subject,
      between |-> between ]

(* variant: the loop body without the seen-id check *)
row_check_no_seen_ids(ex, seen_ids, heldout_family, heldout_severity) ==
    IF ex.corrupt_modality = "none" /\ ex.severity # 0
    THEN IntegrityError("Severity must be 0 for non-corrupted examples", ex.example_id, << >>)
    ELSE IF ex.split \in { TRAIN, VAL, TEST_ID } /\ ex.heldout_family_flag
    THEN IntegrityError("heldout_family_flag cannot be true in ID splits", ex.example_id, << >>)
    ELSE IF ex.split \in { TRAIN, VAL, TEST_ID } /\ ex.heldout_severity_flag
    THEN IntegrityError("heldout_severity_flag cannot be true in ID splits", ex.example_id, << >>)
    ELSE IF heldout_family # NoneValue /\ ex.split = TEST_OOD_FAMILY /\ ex.family # heldout_family
    THEN IntegrityError("OOD-family split contains non-heldout family example", ex.example_id, << >>)
    ELSE IF heldout_family # NoneValue /\ ex.split = TEST_OOD_FAMILY /\ ~ex.heldout_family_flag
    THEN IntegrityError("OOD-family example missing heldout_family_flag", ex.example_id, << >>)
    ELSE IF /\ ex.split = TEST_OOD_SEVERITY
            /\ (ex.corrupt_modality = "none" \/ ex.severity < heldout_severity)
    THEN IntegrityError("OOD-severity split has invalid example", ex.example_id, << >>)
    ELSE IF ex.split = TEST_OOD_SEVERITY /\ ~ex.heldout_severity_flag
    THEN IntegrityError("OOD-severity example missing heldout_severity_flag", ex.example_id, << >>)
    ELSE NoError

(* variant: the loop body without the last check of the OOD-severity rows *)
row_check_no_severity_flag(ex, seen_ids, heldout_family, heldout_severity) ==
    IF ex.example_id \in seen_ids
    THEN IntegrityError("Duplicate example_id", ex.example_id, << >>)
    ELSE IF ex.corrupt_modality = "none" /\ ex.severity # 0
    THEN IntegrityError("Severity must be 0 for non-corrupted examples", ex.example_id, << >>)
    ELSE IF ex.split \in { TRAIN, VAL, TEST_ID } /\ ex.heldout_family_flag
    THEN IntegrityError("heldout_family_flag cannot be true in ID splits", ex.example_id, << >>)
    ELSE IF ex.split \in { TRAIN, VAL, TEST_ID } /\ ex.heldout_severity_flag
    THEN IntegrityError("heldout_severity_flag cannot be true in ID splits", ex.example_id, << >>)
    ELSE IF heldout_family # NoneValue /\ ex.split = TEST_OOD_FAMILY /\ ex.family # heldout_family
    THEN IntegrityError("OOD-family split contains non-heldout family example", ex.example_id, << >>)
    ELSE IF heldout_family # NoneValue /\ ex.split = TEST_OOD_FAMILY /\ ~ex.heldout_family_flag
    THEN IntegrityError("OOD-family example missing heldout_family_flag", ex.example_id, << >>)
    ELSE IF /\ ex.split = TEST_OOD_SEVERITY
            /\ (ex.corrupt_modality = "none" \/ ex.severity < heldout_severity)
    THEN IntegrityError("OOD-severity split has invalid example", ex.example_id, << >>)
    ELSE NoError

(* the checks of one loop iteration, in the order of the loop body *)
(* variant: the severity of a clean row is tested before the repeated id *)
row_check_severity_first(ex, seen_ids, heldout_family, heldout_severity) ==
    IF ex.corrupt_modality = "none" /\ ex.severity # 0
    THEN IntegrityError("Severity must be 0 for non-corrupted examples", ex.example_id, << >>)
    ELSE IF ex.example_id \in seen_ids
    THEN IntegrityError("Duplicate example_id", ex.example_id, << >>)
    ELSE IF ex.split \in { TRAIN, VAL, TEST_ID } /\ ex.heldout_family_flag
    THEN IntegrityError("heldout_family_flag cannot be true in ID splits", ex.example_id, << >>)
    ELSE IF ex.split \in { TRAIN, VAL, TEST_ID } /\ ex.heldout_severity_flag
    THEN IntegrityError("heldout_severity_flag cannot be true in ID splits", ex.example_id, << >>)
    ELSE IF heldout_family # NoneValue /\ ex.split = TEST_OOD_FAMILY /\ ex.family # heldout_family
    THEN IntegrityError("OOD-family split contains non-heldout family example", ex.example_id, << >>)
    ELSE IF heldout_family # NoneValue /\ ex.split = TEST_OOD_FAMILY /\ ~ex.heldout_family_flag
    THEN IntegrityError("OOD-family example missing heldout_family_flag", ex.example_id, << >>)
    ELSE IF /\ ex.split = TEST_OOD_SEVERITY
            /\ (ex.corrupt_modality = "none" \/ ex.severity < heldout_severity)
    THEN IntegrityError("OOD-severity split has invalid example", ex.example_id, << >>)
    ELSE IF ex.split = TEST_OOD_SEVERITY /\ ~ex.heldout_severity_flag
    THEN IntegrityError("OOD-severity example missing heldout_severity_flag", ex.example_id, << >>)
    ELSE NoError

row_check(ex, seen_ids, heldout_family, heldout_severity) ==
    IF ex.example_id \in seen_ids
    THEN IntegrityError("Duplicate example_id", ex.example_id, << >>)
    ELSE IF ex.corrupt_modality = "none" /\ ex.severity # 0
    THEN IntegrityError("Severity must be 0 for non-corrupted examples", ex.example_id, << >>)
    ELSE IF ex.split \in { TRAIN, VAL, TEST_ID } /\ ex.heldout_family_flag
    THEN IntegrityError("heldout_family_flag cannot be true in ID splits", ex.example_id, << >>)
    ELSE IF ex.split \in { TRAIN, VAL, TEST_ID } /\ ex.heldout_severity_flag
    THEN IntegrityError("heldout_severity_flag cannot be true in ID splits", ex.example_id, << >>)
    ELSE IF heldout_family # NoneValue /\ ex.split = TEST_OOD_FAMILY /\ ex.family # heldout_family
    THEN IntegrityError("OOD-family split contains non-heldout family example", ex.example_id, << >>)
    ELSE IF heldout_family # NoneValue /\ ex.split = TEST_OOD_FAMILY /\ ~ex.heldout_family_flag
    THEN IntegrityError("OOD-family example missing heldout_family_flag", ex.example_id, << >>)
    ELSE IF /\ ex.split = TEST_OOD_SEVERITY
            /\ (ex.corrupt_modality = "none" \/ ex.severity < heldout_severity)
    THEN IntegrityError("OOD-severity split has invalid example", ex.example_id, << >>)
    ELSE IF ex.split = TEST_OOD_SEVERITY /\ ~ex.heldout_severity_flag
    THEN IntegrityError("OOD-severity example missing heldout_severity_flag", ex.example_id, << >>)
    ELSE NoError

(* the loop over the examples: the first failing row raises *)
RECURSIVE row_pass(_, _, _, _, _)
row_pass(examples, i, seen_ids, heldout_family, heldout_severity) ==
    IF i > Len(examples) THEN NoError
    ELSE LET r == row_check(examples[i], seen_ids, heldout_family, heldout_severity)
         IN  IF r.raised # "none" THEN r
             ELSE row_pass(examples, i + 1, seen_ids \cup { examples[i].example_id },
                           heldout_family, heldout_severity)

split_images(examples) ==
    [ split \in Split |->
        { source_key(examples[i]) :
            i \in { j \in 1..Len(examples) : examples[j].split = split } } ]

split_templates(examples) ==
    [ split \in Split |->
        { examples[i].template_id :
            i \in { j \in 1..Len(examples) :
                      examples[j].split = split /\ examples[j].template_id # << >> } } ]

IdPairs == << << 1, 2 >>, << 1, 3 >>, << 2, 3 >> >>

MinStr(S) == CHOOSE x \in S : \A y \in S : y = x \/ StrLess(x, y)

(* variant: the pairs are visited from the last to the first *)
leak_check_reversed(split_keys, message) ==
    LET Overlap(k) == split_keys[ID_SPLITS[IdPairs[k][1]]]
                          \cap split_keys[ID_SPLITS[IdPairs[k][2]]]
    IN  IF \E k \in 1..3 : Overlap(k) # {}
        THEN LET k == CHOOSE k \in 1..3 :
                         Overlap(k) # {} /\ \A l \in (k + 1)..3 : Overlap(l) = {}
             IN  IntegrityError(message, MinStr(Overlap(k)),
                                << ID_SPLITS[IdPairs[k][1]], ID_SPLITS[IdPairs[k][2]] >>)
        ELSE NoError

(* pairwise intersection of the ID splits' key sets, first overlapping pair *)
leak_check(split_keys, message) ==
    LET Overlap(k) == split_keys[ID_SPLITS[IdPairs[k][1]]]
                          \cap split_keys[ID_SPLITS[IdPairs[k][2]]]
    IN  IF \E k \in 1..3 : Overlap(k) # {}
        THEN LET k == CHOOSE k \in 1..3 :
                         Overlap(k) # {} /\ \A l \in 1..(k - 1) : Overlap(l) = {}
             IN  IntegrityError(message, MinStr(Overlap(k)),
                                << ID_SPLITS[IdPairs[k][1]], ID_SPLITS[IdPairs[k][2]] >>)
        ELSE NoError

NoManifest == [ hashes |-> << >>, counts |-> << >>, total_examples |-> 0 ]

(* variant: the template sets are compared whatever the flag says *)
validate_split_integrity_templates(examples, heldout_family, heldout_severity, enforce_template_disjointness) ==
    LET rows == row_pass(examples, 1, {}, heldout_family, heldout_severity)
        images == leak_check(split_images(examples), "Image-source leakage")
        templates == leak_check(split_templates(examples), "Template leakage")
    IN  IF rows.raised # "none" THEN [ error |-> rows, manifest |-> NoManifest ]
        ELSE IF images.raised # "none" THEN [ error |-> images, manifest |-> NoManifest ]
        ELSE IF templates.raised # "none"
        THEN [ error |-> templates, manifest |-> NoManifest ]
        ELSE [ error |-> NoError,
               manifest |-> [ hashes |-> _hash_by_split(examples),
                              counts |-> _count_by_split(examples),
                              total_examples |-> Len(examples) ] ]

validate_split_integrity(examples, heldout_family, heldout_severity, enforce_template_disjointness) ==
    LET rows == row_pass(examples, 1, {}, heldout_family, heldout_severity)
        images == leak_check(split_images(examples), "Image-source leakage")
        templates == leak_check(split_templates(examples), "Template leakage")
    IN  IF rows.raised # "none" THEN [ error |-> rows, manifest |-> NoManifest ]
        ELSE IF images.raised # "none" THEN [ error |-> images, manifest |-> NoManifest ]
        ELSE IF enforce_template_disjointness /\ templates.raised # "none"
        THEN [ error |-> templates, manifest |-> NoManifest ]
        ELSE [ error |-> NoError,
               manifest |-> [ hashes |-> _hash_by_split(examples),
                              counts |-> _count_by_split(examples),
                              total_examples |-> Len(examples) ] ]

-----------------------------------------------------------------------------
(* construction.py *)

infer_source_image_id(image_path) == SplitBar0(image_path)

IsAlnum(c) == Code[c] > Code["-"] /\ c \notin { ":", "_", "|" }

(* " ".join(re.findall(r"[a-z0-9]+", question.lower())): the runs of        *)
(* alphanumerics, joined by one separator (written "_")                     *)
RECURSIVE NormalizeFrom(_, _, _)
NormalizeFrom(q, i, pending) ==
    IF i > Len(q) THEN << >>
    ELSE IF IsAlnum(q[i])
         THEN (IF pending THEN << "_" >> ELSE << >>) \o << q[i] >>
                  \o NormalizeFrom(q, i + 1, FALSE)
         ELSE NormalizeFrom(q, i + 1, pending \/ \E j \in 1..(i - 1) : IsAlnum(q[j]))

(* sha1(normalized).hexdigest()[:12]: an injective image, marked "#" *)
infer_template_id(question) == << "#" >> \o NormalizeFrom(question, 1, FALSE)

_noun_like_tokens(text) ==
    { t \in Range(text) : t \notin STOPWORDS /\ Len(t) > 2 }

(* the quotient as a fraction <<numerator, denominator>> *)
_jaccard_tokens(a, b) ==
    IF a = {} /\ b = {} THEN << 1, 1 >>
    ELSE << Cardinality(a \cap b), Max(1, Cardinality(a \cup b)) >>

FracLess(x, y) == x[1] * y[2] < y[1] * x[2]

(* variant: source_image_id and template_id are left as the caller gave them *)
_set_clean_defaults_no_infer(example) ==
    LET out == replace(example,
                 [ example_id |-> example.base_id \o Sep \o S_clean,
                   variant_id |-> S_clean,
                   operator |-> "clean",
                   corrupt_modality |-> "none",
                   severity |-> 0,
                   hard_swap_flag |-> FALSE,
                   heldout_family_flag |-> FALSE,
                   heldout_severity_flag |-> FALSE,
                   split |-> TRAIN ])
    IN  replace(out,
          [ oracle_action |->
              call_derive_oracle_action(<< out.corrupt_modality >>, NoKwargs) ])

_set_clean_defaults(example) ==
    LET out == replace(example,
                 [ example_id |-> example.base_id \o Sep \o S_clean,
                   variant_id |-> S_clean,
                   operator |-> "clean",
                   corrupt_modality |-> "none",
                   severity |-> 0,
                   hard_swap_flag |-> FALSE,
                   heldout_family_flag |-> FALSE,
                   heldout_severity_flag |-> FALSE,
                   split |-> TRAIN,
                   source_image_id |->
                       IF example.source_image_id # << >> THEN example.source_image_id
                       ELSE infer_source_image_id(example.image_path),
                   template_id |->
                       IF example.template_id # << >> THEN example.template_id
                       ELSE infer_template_id(example.question) ])
    IN  replace(out,
          [ oracle_action |->
              call_derive_oracle_action(<< out.corrupt_modality >>, NoKwargs) ])

SourceOf(ex) ==
    IF ex.source_image_id # << >> THEN ex.source_image_id
    ELSE infer_source_image_id(ex.image_path)

(* variant: the set of source ids is shuffled as iterated, without sorted() *)
_source_split_unsorted(examples, seed, ratios, iteration) ==
    LET rng == Random(seed)
        source_ids == shuffle(rng, iteration)
        n == Len(source_ids)
        n_train == (n * ratios.train) \div 100
        n_val == (n * ratios.val) \div 100
        train_sources == Range(SubSeq(source_ids, 1, Min(n_train, n)))
        val_sources == Range(SubSeq(source_ids, n_train + 1, Min(n_train + n_val, n)))
    IN  [ source \in Range(source_ids) |->
            IF source \in train_sources THEN TRAIN
            ELSE IF source \in val_sources THEN VAL
            ELSE TEST_ID ]

(* variant: test_id gets its configured share and val what is left *)
_source_split_test_share(examples, seed, ratios, iteration) ==
    LET rng == Random(seed)
        source_ids == shuffle(rng, SortStrs(iteration))
        n == Len(source_ids)
        n_train == (n * ratios.train) \div 100
        n_test == (n * ratios.test_id) \div 100
        train_sources == Range(SubSeq(source_ids, 1, Min(n_train, n)))
        test_sources == Range(SubSeq(source_ids, n_train + 1, Min(n_train + n_test, n)))
    IN  [ source \in Range(source_ids) |->
            IF source \in train_sources THEN TRAIN
            ELSE IF source \in test_sources THEN TEST_ID
            ELSE VAL ]

(* iteration is the order in which the set of source ids is iterated        *)
(* before sorted() is applied to it; ratios are in percent                  *)
_source_split(examples, seed, ratios, iteration) ==
    LET rng == Random(seed)
        source_ids == shuffle(rng, SortStrs(iteration))
        n == Len(source_ids)
        n_train == (n * ratios.train) \div 100
        n_val == (n * ratios.val) \div 100
        train_sources == Range(SubSeq(source_ids, 1, Min(n_train, n)))
        val_sources == Range(SubSeq(source_ids, n_train + 1, Min(n_train + n_val, n)))
    IN  [ source \in Range(source_ids) |->
            IF source \in train_sources THEN TRAIN
            ELSE IF source \in val_sources THEN VAL
            ELSE TEST_ID ]

SourceSet(examples) == { SourceOf(examples[i]) : i \in 1..Len(examples) }

(* variant: the severity override is tested before the family override *)
_assign_splits_severity_first(examples, seed, ratios, held_out_family, held_out_severity, enable_ood_hard_swap, iteration) ==
    LET source_map == _source_split(examples, seed, ratios, iteration)
        assign(ex) ==
            LET split == source_map[SourceOf(ex)]
            IN  IF ex.corrupt_modality # "none" /\ ex.severity >= held_out_severity
                THEN replace(ex, [ split |-> TEST_OOD_SEVERITY,
                                   heldout_family_flag |-> FALSE,
                                   heldout_severity_flag |-> TRUE ])
                ELSE IF ex.family = held_out_family
                THEN replace(ex, [ split |-> TEST_OOD_FAMILY,
                                   heldout_family_flag |-> TRUE,
                                   heldout_severity_flag |-> FALSE ])
                ELSE IF enable_ood_hard_swap /\ ex.operator = "swap_hard" /\ ex.hard_swap_flag
                THEN replace(ex, [ split |-> TEST_OOD_HARD_SWAP,
                                   heldout_family_flag |-> FALSE,
                                   heldout_severity_flag |-> FALSE ])
                ELSE replace(ex, [ split |-> split,
                                   heldout_family_flag |-> FALSE,
                                   heldout_severity_flag |-> FALSE ])
    IN  [ i \in 1..Len(examples) |-> assign(examples[i]) ]

(* variant: the hard-swap override is tested before the severity override *)
_assign_splits_hard_swap_first(examples, seed, ratios, held_out_family, held_out_severity, enable_ood_hard_swap, iteration) ==
    LET source_map == _source_split(examples, seed, ratios, iteration)
        assign(ex) ==
            LET split == source_map[SourceOf(ex)]
            IN  IF ex.family = held_out_family
                THEN replace(ex, [ split |-> TEST_OOD_FAMILY,
                                   heldout_family_flag |-> TRUE,
                                   heldout_severity_flag |-> FALSE ])
                ELSE IF enable_ood_hard_swap /\ ex.operator = "swap_hard" /\ ex.hard_swap_flag
                THEN replace(ex, [ split |-> TEST_OOD_HARD_SWAP,
                                   heldout_family_flag |-> FALSE,
                                   heldout_severity_flag |-> FALSE ])
                ELSE IF ex.corrupt_modality # "none" /\ ex.severity >= held_out_severity
                THEN replace(ex, [ split |-> TEST_OOD_SEVERITY,
                                   heldout_family_flag |-> FALSE,
                                   heldout_severity_flag |-> TRUE ])
                ELSE replace(ex, [ split |-> split,
                                   heldout_family_flag |-> FALSE,
                                   heldout_severity_flag |-> FALSE ])
    IN  [ i \in 1..Len(examples) |-> assign(examples[i]) ]

(* variant: a row sent to test_ood_hard_swap has its hard_swap_flag cleared *)
_assign_splits_clears_flag(examples, seed, ratios, held_out_family, held_out_severity, enable_ood_hard_swap, iteration) ==
    LET source_map == _source_split(examples, seed, ratios, iteration)
        assign(ex) ==
            LET split == source_map[SourceOf(ex)]
            IN  IF ex.family = held_out_family
                THEN replace(ex, [ split |-> TEST_OOD_FAMILY,
                                   heldout_family_flag |-> TRUE,
                                   heldout_severity_flag |-> FALSE ])
                ELSE IF ex.corrupt_modality # "none" /\ ex.severity >= held_out_severity
                THEN replace(ex, [ split |-> TEST_OOD_SEVERITY,
                                   heldout_family_flag |-> FALSE,
                                   heldout_severity_flag |-> TRUE ])
                ELSE IF enable_ood_hard_swap /\ ex.operator = "swap_hard" /\ ex.hard_swap_flag
                THEN replace(ex, [ split |-> TEST_OOD_HARD_SWAP,
                                   hard_swap_flag |-> FALSE,
                                   heldout_family_flag |-> FALSE,
                                   heldout_severity_flag |-> FALSE ])
                ELSE replace(ex, [ split |-> split,
                                   heldout_family_flag |-> FALSE,
                                   heldout_severity_flag |-> FALSE ])
    IN  [ i \in 1..Len(examples) |-> assign(examples[i]) ]

(* variant: a held-out severity row is flagged and left in the split of its source *)
_assign_splits_keeps_source_split(examples, seed, ratios, held_out_family, held_out_severity, enable_ood_hard_swap, iteration) ==
    LET source_map == _source_split(examples, seed, ratios, iteration)
        assign(ex) ==
            LET split == source_map[SourceOf(ex)]
            IN  IF ex.family = held_out_family
                THEN replace(ex, [ split |-> TEST_OOD_FAMILY,
                                   heldout_family_flag |-> TRUE,
                                   heldout_severity_flag |-> FALSE ])
                ELSE IF ex.corrupt_modality # "none" /\ ex.severity >= held_out_severity
                THEN replace(ex, [ split |-> split,
                                   heldout_family_flag |-> FALSE,
                                   heldout_severity_flag |-> TRUE ])
                ELSE IF enable_ood_hard_swap /\ ex.operator = "swap_hard" /\ ex.hard_swap_flag
                THEN replace(ex, [ split |-> TEST_OOD_HARD_SWAP,
                                   heldout_family_flag |-> FALSE,
                                   heldout_severity_flag |-> FALSE ])
                ELSE replace(ex, [ split |-> split,
                                   heldout_family_flag |-> FALSE,
                                   heldout_severity_flag |-> FALSE ])
    IN  [ i \in 1..Len(examples) |-> assign(examples[i]) ]

_assign_splits(examples, seed, ratios, held_out_family, held_out_severity, enable_ood_hard_swap, iteration) ==
    LET source_map == _source_split(examples, seed, ratios, iteration)
        assign(ex) ==
            LET split == source_map[SourceOf(ex)]
            IN  IF ex.family = held_out_family
                THEN replace(ex, [ split |-> TEST_OOD_FAMILY,
                                   heldout_family_flag |-> TRUE,
                                   heldout_severity_flag |-> FALSE ])
                ELSE IF ex.corrupt_modality # "none" /\ ex.severity >= held_out_severity
                THEN replace(ex, [ split |-> TEST_OOD_SEVERITY,
                                   heldout_family_flag |-> FALSE,
                                   heldout_severity_flag |-> TRUE ])
                ELSE IF enable_ood_hard_swap /\ ex.operator = "swap_hard" /\ ex.hard_swap_flag
                THEN replace(ex, [ split |-> TEST_OOD_HARD_SWAP,
                                   heldout_family_flag |-> FALSE,
                                   heldout_severity_flag |-> FALSE ])
                ELSE replace(ex, [ split |-> split,
                                   heldout_family_flag |-> FALSE,
                                   heldout_severity_flag |-> FALSE ])
    IN  [ i \in 1..Len(examples) |-> assign(examples[i]) ]

(* variant: with no candidate the base itself is handed back as the donor *)
_hard_swap_candidate_never_none(base, donors, jaccard_min, jaccard_max, rng) ==
    LET base_tokens == _noun_like_tokens(base.text_input)
        Qualifies(donor) ==
            /\ donor.base_id # base.base_id
            /\ donor.source_image_id # base.source_image_id
            /\ LET score == _jaccard_tokens(base_tokens, _noun_like_tokens(donor.text_input))
               IN  ~(FracLess(score, jaccard_min) \/ FracLess(jaccard_max, score))
        candidates == SelectSeq(donors, Qualifies)
    IN  IF candidates = << >> THEN << TRUE, base, rng >>
        ELSE LET c == choice(rng, candidates) IN << TRUE, c[1], c[2] >>

(* variant: a donor of the same source image is not passed over *)
_hard_swap_candidate_same_image(base, donors, jaccard_min, jaccard_max, rng) ==
    LET base_tokens == _noun_like_tokens(base.text_input)
        Qualifies(donor) ==
            /\ donor.base_id # base.base_id
            /\ LET score == _jaccard_tokens(base_tokens, _noun_like_tokens(donor.text_input))
               IN  ~(FracLess(score, jaccard_min) \/ FracLess(jaccard_max, score))
        candidates == SelectSeq(donors, Qualifies)
    IN  IF candidates = << >> THEN << FALSE, base, rng >>
        ELSE LET c == choice(rng, candidates) IN << TRUE, c[1], c[2] >>

(* <<found, donor, rng>>: found is FALSE for None; rng is the generator     *)
(* after the call                                                           *)
_hard_swap_candidate(base, donors, jaccard_min, jaccard_max, rng) ==
    LET base_tokens == _noun_like_tokens(base.text_input)
        Qualifies(donor) ==
            /\ donor.base_id # base.base_id
            /\ donor.source_image_id # base.source_image_id
            /\ LET score == _jaccard_tokens(base_tokens, _noun_like_tokens(donor.text_input))
               IN  ~(FracLess(score, jaccard_min) \/ FracLess(jaccard_max, score))
        candidates == SelectSeq(donors, Qualifies)
    IN  IF candidates = << >> THEN << FALSE, base, rng >>
        ELSE LET c == choice(rng, candidates) IN << TRUE, c[1], c[2] >>

normalize_base(ex) ==
    IF ex.operator # "clean"
    THEN _set_clean_defaults(replace(ex, [ operator |-> "clean",
                                           corrupt_modality |-> "none",
                                           severity |-> 0 ]))
    ELSE _set_clean_defaults(ex)

(* the rows appended for one base, and the generator after them *)
variants_of(base, normalized_base, rng, c) ==
    LET OtherBase(d) == d.base_id # base.base_id
        SameBucket(d) == d.family = base.family /\ d.answer_type = base.answer_type
        easy_pool == SelectSeq(normalized_base, OtherBase)
        easy == choice(rng, easy_pool)
        hard == _hard_swap_candidate(base, SelectSeq(normalized_base, SameBucket),
                                     c.hard_swap_jaccard_min, c.hard_swap_jaccard_max,
                                     easy[2])
        swaps == IF easy_pool = << >> THEN << >>
                 ELSE << caption_swap(base, easy[1].text_input, "swap_easy", FALSE, c.seed),
                         IF hard[1]
                         THEN caption_swap(base, hard[2].text_input, "swap_hard", TRUE, c.seed)
                         ELSE caption_swap(base, easy[1].text_input, "swap_hard", FALSE, c.seed) >>
        severities == SortedInts(Range(c.vision_severities))
        vision == [ k \in 1..Len(severities) |->
                      vision_corrupt(base, c.vision_corruption_type, severities[k]) ]
        both == replace(text_edit(base, c.color_vocab, c.seed),
                  [ example_id |-> base.base_id \o Sep \o S_both,
                    variant_id |-> S_both,
                    operator |-> "both",
                    corrupt_modality |-> "both",
                    severity |-> MaxOf(c.vision_severities),
                    oracle_action |->
                        call_derive_oracle_action(<< "both" >>, << << "is_ambiguous", TRUE >> >>) ])
    IN  << << base >> \o swaps \o << text_edit(base, c.color_vocab, c.seed) >> \o vision
              \o (IF c.include_both_variants THEN << both >> ELSE << >>),
           IF easy_pool = << >> THEN rng ELSE hard[3] >>

RECURSIVE generate(_, _, _, _)
generate(normalized_base, i, rng, c) ==
    IF i > Len(normalized_base) THEN << >>
    ELSE LET v == variants_of(normalized_base[i], normalized_base, rng, c)
         IN  v[1] \o generate(normalized_base, i + 1, v[2], c)

(* key[i] is the value of the key lambda on examples[i] *)
_distribution(examples, key) ==
    [ k \in { key[i] : i \in 1..Len(examples) } |->
        Cardinality({ i \in 1..Len(examples) : key[i] = k }) ]

config_of(c) ==
    [ seed |-> c.seed,
      held_out_family |-> c.held_out_family,
      held_out_severity |-> c.held_out_severity,
      split_ratios |-> c.split_ratios,
      vision_corruption_type |-> c.vision_corruption_type,
      vision_severities |-> c.vision_severities,
      hard_swap_jaccard_min |-> c.hard_swap_jaccard_min,
      hard_swap_jaccard_max |-> c.hard_swap_jaccard_max,
      include_both_variants |-> c.include_both_variants,
      enable_ood_hard_swap |-> c.enable_ood_hard_swap,
      enforce_template_disjointness |-> c.enforce_template_disjointness ]

(* the loop of build_conflict_suite that fills generated *)
generate_variants(base_examples, c) ==
    LET normalized_base == [ i \in 1..Len(base_examples) |-> normalize_base(base_examples[i]) ]
    IN  generate(normalized_base, 1, Random(c.seed), c)

(* the tail of build_conflict_suite: sort, validate, complete the manifest; *)
(* an IntegrityError of the validator propagates and nothing is returned    *)
finish(assigned_rows, c, held_out_severity) ==
    LET assigned == SortById(assigned_rows)
        checked == validate_split_integrity(assigned, c.held_out_family, held_out_severity,
                                            c.enforce_template_disjointness)
        KFamily == [ i \in 1..Len(assigned) |-> assigned[i].family ]
        KOperator == [ i \in 1..Len(assigned) |-> assigned[i].operator ]
        KSeverity == [ i \in 1..Len(assigned) |-> IntStr(assigned[i].severity) ]
        KSplit == [ i \in 1..Len(assigned) |-> assigned[i].split ]
    IN  IF checked.error.raised # "none"
        THEN [ raised |-> checked.error.raised, error |-> checked.error,
               rows |-> << >>, manifest |-> NoManifest ]
        ELSE [ raised |-> "none", error |-> NoError,
               rows |-> assigned,
               manifest |->
                 [ hashes |-> checked.manifest.hashes,
                   counts |-> checked.manifest.counts,
                   total_examples |-> checked.manifest.total_examples,
                   config |-> config_of(c),
                   distributions |->
                     [ family |-> _distribution(assigned, KFamily),
                       operator |-> _distribution(assigned, KOperator),
                       severity |-> _distribution(assigned, KSeverity),
                       split |-> _distribution(assigned, KSplit) ] ] ]

(* variant: the threshold handed on is one below the configured one *)
build_conflict_suite_threshold(base_examples, c) ==
    LET held_out_severity == c.held_out_severity - 1
        generated == generate_variants(base_examples, c)
        assignments ==
            { _assign_splits(generated, c.seed, c.split_ratios, c.held_out_family,
                             held_out_severity, c.enable_ood_hard_swap, iteration) :
                iteration \in Enumerations(SourceSet(generated)) }
    IN  { finish(assigned, c, held_out_severity) : assigned \in assignments }

(* build_conflict_suite(base_examples, c...): the results the call can      *)
(* produce, one for every order in which the set of source ids built in     *)
(* _source_split can be iterated                                            *)
build_conflict_suite(base_examples, c) ==
    LET held_out_severity == c.held_out_severity
        generated == generate_variants(base_examples, c)
        assignments ==
            { _assign_splits(generated, c.seed, c.split_ratios, c.held_out_family,
                             held_out_severity, c.enable_ood_hard_swap, iteration) :
                iteration \in Enumerations(SourceSet(generated)) }
    IN  { finish(assigned, c, held_out_severity) : assigned \in assignments }

-----------------------------------------------------------------------------
(* sampling.py *)

(* the keys of the dict grouped, in insertion order *)
RECURSIVE BaseIdsInOrder(_)
BaseIdsInOrder(examples) ==
    IF examples = << >> THEN << >>
    ELSE LET rest == BaseIdsInOrder(SubSeq(examples, 1, Len(examples) - 1))
             b == examples[Len(examples)].base_id
         IN  IF b \in Range(rest) THEN rest ELSE Append(rest, b)

(* grouped[base_id] *)
_group_by_base(examples, base_id) ==
    LET InGroup(ex) == ex.base_id = base_id IN SelectSeq(examples, InGroup)

_representative(group) ==
    LET IsCleanRow(ex) == ex.operator = "clean"
        cleans == SelectSeq(group, IsCleanRow)
    IN  IF cleans # << >> THEN cleans[1] ELSE SortById(group)[1]

RECURSIVE SumSeq(_)
SumSeq(xs) == IF xs = << >> THEN 0 ELSE xs[Len(xs)] + SumSeq(SubSeq(xs, 1, Len(xs) - 1))

(* position of index i in sorted(..., key=value, reverse=True): the sort is *)
(* stable, equal values keep their order                                    *)
RankDescending(values, i) ==
    Cardinality({ j \in 1..Len(values) : values[j] > values[i] })
        + Cardinality({ j \in 1..(i - 1) : values[j] = values[i] })

(* the backfill loop: strata by size, largest first, take what room allows *)
RECURSIVE Backfill(_, _, _, _)
Backfill(base_alloc, sizes, r, deficit) ==
    IF r >= Len(sizes) \/ deficit = 0 THEN base_alloc
    ELSE LET key == CHOOSE i \in 1..Len(sizes) : RankDescending(sizes, i) = r
             room == sizes[key] - base_alloc[key]
             take == Min(room, deficit)
         IN  IF room <= 0 THEN Backfill(base_alloc, sizes, r + 1, deficit)
             ELSE Backfill([ base_alloc EXCEPT ![key] = @ + take ], sizes, r + 1,
                           deficit - take)

(* variant: the whole shares only, no remainder handed out and no backfill *)
_allocate_counts_floor(total, sizes) ==
    LET n == SumSeq(sizes)
    IN  IF total <= 0 \/ n = 0 THEN [ i \in 1..Len(sizes) |-> 0 ]
        ELSE [ i \in 1..Len(sizes) |-> Min((sizes[i] * total) \div n, sizes[i]) ]

(* variant: the leftover slots go to the first strata in key order *)
_allocate_counts_first_keys(total, sizes) ==
    LET n == SumSeq(sizes)
        floors == [ i \in 1..Len(sizes) |-> (sizes[i] * total) \div n ]
        remaining == Max(0, total - SumSeq(floors))
        raised == [ i \in 1..Len(sizes) |->
                      IF i <= remaining THEN floors[i] + 1 ELSE floors[i] ]
        capped == [ i \in 1..Len(sizes) |-> Min(raised[i], sizes[i]) ]
        assigned == SumSeq(capped)
    IN  IF total <= 0 \/ n = 0 THEN [ i \in 1..Len(sizes) |-> 0 ]
        ELSE IF assigned < total THEN Backfill(capped, sizes, 0, total - assigned)
        ELSE capped

(* sizes and the result are the values of the dicts in key order; size/n *)
(* times total is kept exact as the quotient and remainder of            *)
(* size * total by n, which is what the float gives for n up to 5        *)
_allocate_counts(total, sizes) ==
    LET n == SumSeq(sizes)
        floors == [ i \in 1..Len(sizes) |-> (sizes[i] * total) \div n ]
        fractions == [ i \in 1..Len(sizes) |-> (sizes[i] * total) % n ]
        remaining == Max(0, total - SumSeq(floors))
        raised == [ i \in 1..Len(sizes) |->
                      IF RankDescending(fractions, i) < remaining
                      THEN floors[i] + 1 ELSE floors[i] ]
        capped == [ i \in 1..Len(sizes) |-> Min(raised[i], sizes[i]) ]
        assigned == SumSeq(capped)
    IN  IF total <= 0 \/ n = 0 THEN [ i \in 1..Len(sizes) |-> 0 ]
        ELSE IF assigned < total THEN Backfill(capped, sizes, 0, total - assigned)
        ELSE capped

(* the keys of the dict strata, in insertion order *)
RECURSIVE StrataKeys(_, _)
StrataKeys(examples, base_ids) ==
    IF base_ids = << >> THEN << >>
    ELSE LET rest == StrataKeys(examples, SubSeq(base_ids, 1, Len(base_ids) - 1))
             rep == _representative(_group_by_base(examples, base_ids[Len(base_ids)]))
             key == << rep.family, rep.split >>
         IN  IF key \in Range(rest) THEN rest ELSE Append(rest, key)

(* strata[key] after ids.sort() *)
StratumIds(examples, base_ids, key) ==
    LET InStratum(b) ==
            LET rep == _representative(_group_by_base(examples, b))
            IN  << rep.family, rep.split >> = key
    IN  SortStrs(SelectSeq(base_ids, InStratum))

(* the selection loop over strata.items(): one generator serves all strata *)
RECURSIVE SelectFrom(_, _, _, _)
SelectFrom(strata, alloc, i, rng) ==
    IF i > Len(strata) THEN {}
    ELSE LET shuffled == shuffle(rng, strata[i])
         IN  Range(SubSeq(shuffled, 1, Min(alloc[i], Len(shuffled))))
                 \cup SelectFrom(strata, alloc, i + 1, RngAfter(rng, Len(strata[i]) - 1))

(* sampling.py has its own _distribution: a Counter of the key values, the *)
(* keys turned into str and sorted; key[i] is the lambda's value on row i  *)
sampling_distribution(examples, key) ==
    [ k \in { key[i] : i \in 1..Len(examples) } |->
        Cardinality({ i \in 1..Len(examples) : key[i] = k }) ]

(* variant: of a selected base only the representative row is returned *)
sample_pilot_by_base_representatives(examples, base_sample_size, seed) ==
    LET base_ids == BaseIdsInOrder(examples)
        keys == StrataKeys(examples, base_ids)
        strata == [ i \in 1..Len(keys) |-> StratumIds(examples, base_ids, keys[i]) ]
        sizes == [ i \in 1..Len(keys) |-> Len(strata[i]) ]
        alloc == _allocate_counts(Min(base_sample_size, Len(base_ids)), sizes)
        selected_base_ids == SelectFrom(strata, alloc, 1, Random(seed))
        Chosen(ex) == /\ ex.base_id \in selected_base_ids
                      /\ ex = _representative(_group_by_base(examples, ex.base_id))
        selected == SortById(SelectSeq(examples, Chosen))
    IN  IF base_sample_size <= 0
        THEN [ selected |-> << >>,
               manifest |-> [ base_sample_size |-> 0,
                              selected_base_count |-> 0,
                              selected_example_count |-> 0 ] ]
        ELSE [ selected |-> selected,
               manifest |->
                 [ strategy |-> "stratified_base",
                   seed |-> seed,
                   base_sample_size |-> base_sample_size,
                   selected_base_count |-> Cardinality(selected_base_ids),
                   selected_example_count |-> Len(selected),
                   strata_counts_full |-> [ k \in Range(keys) |->
                       Len(StratumIds(examples, base_ids, k)) ],
                   strata_counts_selected |-> [ k \in Range(keys) |->
                       Cardinality(selected_base_ids
                                     \cap Range(StratumIds(examples, base_ids, k))) ],
                   distributions |->
                     [ family |-> sampling_distribution(selected,
                           [ i \in 1..Len(selected) |-> selected[i].family ]),
                       operator |-> sampling_distribution(selected,
                           [ i \in 1..Len(selected) |-> selected[i].operator ]),
                       severity |-> sampling_distribution(selected,
                           [ i \in 1..Len(selected) |-> IntStr(selected[i].severity) ]),
                       split |-> sampling_distribution(selected,
                           [ i \in 1..Len(selected) |-> selected[i].split ]) ] ] ]

sample_pilot_by_base(examples, base_sample_size, seed) ==
    LET base_ids == BaseIdsInOrder(examples)
        keys == StrataKeys(examples, base_ids)
        strata == [ i \in 1..Len(keys) |-> StratumIds(examples, base_ids, keys[i]) ]
        sizes == [ i \in 1..Len(keys) |-> Len(strata[i]) ]
        alloc == _allocate_counts(Min(base_sample_size, Len(base_ids)), sizes)
        selected_base_ids == SelectFrom(strata, alloc, 1, Random(seed))
        Chosen(ex) == ex.base_id \in selected_base_ids
        selected == SortById(SelectSeq(examples, Chosen))
    IN  IF base_sample_size <= 0
        THEN [ selected |-> << >>,
               manifest |-> [ base_sample_size |-> 0,
                              selected_base_count |-> 0,
                              selected_example_count |-> 0 ] ]
        ELSE [ selected |-> selected,
               manifest |->
                 [ strategy |-> "stratified_base",
                   seed |-> seed,
                   base_sample_size |-> base_sample_size,
                   selected_base_count |-> Cardinality(selected_base_ids),
                   selected_example_count |-> Len(selected),
                   strata_counts_full |-> [ k \in Range(keys) |->
                       Len(StratumIds(examples, base_ids, k)) ],
                   strata_counts_selected |-> [ k \in Range(keys) |->
                       Cardinality(selected_base_ids
                                     \cap Range(StratumIds(examples, base_ids, k))) ],
                   distributions |->
                     [ family |-> sampling_distribution(selected,
                           [ i \in 1..Len(selected) |-> selected[i].family ]),
                       operator |-> sampling_distribution(selected,
                           [ i \in 1..Len(selected) |-> selected[i].operator ]),
                       severity |-> sampling_distribution(selected,
                           [ i \in 1..Len(selected) |-> IntStr(selected[i].severity) ]),
                       split |-> sampling_distribution(selected,
                           [ i \in 1..Len(selected) |-> selected[i].split ]) ] ] ]

-----------------------------------------------------------------------------
(* Inputs *)

Example(base_id, image_path, source_image_id, family, answer_type, text_input, question, template_id) ==
    [ example_id |-> base_id \o Sep \o S_clean,
      base_id |-> base_id,
      variant_id |-> S_clean,
      image_path |-> image_path,
      text_input |-> text_input,
      question |-> question,
      split |-> TRAIN,
      family |-> family,
      operator |-> "clean",
      corrupt_modality |-> "none",
      severity |-> 0,
      answer_type |-> answer_type,
      oracle_action |-> "require_agreement",
      source_image_id |-> source_image_id,
      template_id |-> template_id,
      heldout_family_flag |-> FALSE,
      heldout_severity_flag |-> FALSE,
      hard_swap_flag |-> FALSE ]

(* base examples a caller can hand in: clean rows with and without         *)
(* source_image_id / template_id, a corrupted row carrying stale labels,    *)
(* and two rows that share a base_id                                        *)
BasePool ==
    { Example(<< "a" >>, << "p" >>, << "p" >>, "attribute_color", "color",
              << "red", "car", "parked" >>, << "k" >>, << "t" >>),
      Example(<< "b" >>, << "q" >>, << "q" >>, "count", "integer",
              << "two", "dogs", "sit", "grass" >>, << "m" >>, << >>),
      replace(Example(<< "c" >>, << "r", "|", "v" >>, << >>, "count", "integer",
                      << "two", "dogs", "run", "grass" >>, << "m" >>, << >>),
              [ example_id |-> << "c", ":", ":", "v" >>,
                variant_id |-> << "v" >>,
                operator |-> "vision_corrupt",
                corrupt_modality |-> "vision",
                severity |-> 2,
                oracle_action |-> "trust_text",
                split |-> VAL,
                heldout_family_flag |-> TRUE,
                heldout_severity_flag |-> TRUE,
                hard_swap_flag |-> TRUE ]),
      Example(<< "d" >>, << "q", "|", "w" >>, << >>, "count", "integer",
              << "3", "dogs", "sit", "park" >>, << "n" >>, << "t" >>),
      Example(<< "a" >>, << "r" >>, << "r" >>, "existence", "boolean",
              << "bicycle", "is", "next", "tree" >>, << "k" >>, << >>) }

SeqsUpTo(S, n) == UNION { [1..k -> S] : k \in 0..n }

(* lists without a repeated element *)
ListsUpTo(S, n) ==
    { l \in SeqsUpTo(S, n) : \A i, j \in DOMAIN l : i # j => l[i] # l[j] }

Configs ==
    [ seed : { 1, 7 },
      held_out_family : { "attribute_color", "count" },
      held_out_severity : { 1, 3 },
      split_ratios : { [ train |-> 70, val |-> 15, test_id |-> 15 ],
                       [ train |-> 34, val |-> 34, test_id |-> 10 ] },
      vision_corruption_type : { "occlusion" },
      vision_severities : { << 1, 2, 3 >> },
      color_vocab : { << "red", "blue", "green" >> },
      hard_swap_jaccard_min : { << 1, 5 >> },
      hard_swap_jaccard_max : { << 7, 10 >> },
      include_both_variants : BOOLEAN,
      enable_ood_hard_swap : BOOLEAN,
      enforce_template_disjointness : { FALSE } ]
    \cup
    [ seed : { 1 },
      held_out_family : { "attribute_color" },
      held_out_severity : { 1, 3 },
      split_ratios : { [ train |-> 70, val |-> 15, test_id |-> 15 ] },
      vision_corruption_type : { "occlusion" },
      vision_severities : { << 0, 2 >> },
      color_vocab : { << "red", "blue", "green" >> },
      hard_swap_jaccard_min : { << 3, 5 >> },
      hard_swap_jaccard_max : { << 3, 5 >> },
      include_both_variants : BOOLEAN,
      enable_ood_hard_swap : { TRUE },
      enforce_template_disjointness : BOOLEAN ]

NoConfig == [ seed |-> 0 ]

ValidRow ==
    replace(Example(<< "x" >>, << "p" >>, << "p" >>, "count", "integer",
                    << "two", "dogs" >>, << "m" >>, << "t" >>),
            [ example_id |-> << "x" >> ])

(* rows handed to the validator directly: valid ones and ones that break    *)
(* one labelling invariant each                                             *)
RowPool ==
    { ValidRow,
      replace(ValidRow, [ example_id |-> << "y" >>, split |-> VAL, corrupt_modality |-> "vision",
                          severity |-> 2, source_image_id |-> << "q" >>,
                          template_id |-> << "u" >> ]),
      replace(ValidRow, [ severity |-> 2 ]),
      replace(ValidRow, [ example_id |-> << "y" >>, split |-> VAL, corrupt_modality |-> "vision",
                          source_image_id |-> << "q" >>, template_id |-> << "u" >> ]),
      replace(ValidRow, [ example_id |-> << "y" >>, split |-> TEST_ID,
                          corrupt_modality |-> "text" ]),
      replace(ValidRow, [ example_id |-> << "y" >>, heldout_family_flag |-> TRUE ]),
      replace(ValidRow, [ example_id |-> << "y" >>, split |-> TEST_OOD_FAMILY,
                          family |-> "attribute_color", heldout_family_flag |-> TRUE ]),
      replace(ValidRow, [ example_id |-> << "y" >>, split |-> TEST_OOD_SEVERITY,
                          corrupt_modality |-> "vision", severity |-> 3,
                          heldout_severity_flag |-> TRUE ]),
      replace(ValidRow, [ example_id |-> << "y" >>, split |-> TEST_OOD_SEVERITY,
                          heldout_severity_flag |-> TRUE ]),
      replace(ValidRow, [ example_id |-> << "y" >>, split |-> VAL ]),
      replace(ValidRow, [ example_id |-> << "y" >>, split |-> VAL,
                          source_image_id |-> << >>, image_path |-> << "q", "|", "p" >> ]),
      replace(ValidRow, [ split |-> TEST_OOD_SEVERITY, corrupt_modality |-> "text",
                          heldout_severity_flag |-> TRUE ]),
      replace(ValidRow, [ example_id |-> << "y" >>, split |-> TEST_ID,
                          heldout_severity_flag |-> TRUE ]),
      replace(ValidRow, [ example_id |-> << "y" >>, split |-> TEST_OOD_FAMILY,
                          heldout_family_flag |-> TRUE ]),
      replace(ValidRow, [ example_id |-> << "y" >>, split |-> TEST_OOD_FAMILY,
                          family |-> "attribute_color" ]),
      replace(ValidRow, [ example_id |-> << "y" >>, split |-> TEST_OOD_SEVERITY,
                          corrupt_modality |-> "vision", severity |-> 2,
                          heldout_severity_flag |-> TRUE ]),
      replace(ValidRow, [ example_id |-> << "y" >>, split |-> TEST_OOD_SEVERITY,
                          corrupt_modality |-> "vision", severity |-> 3 ]),
      replace(ValidRow, [ example_id |-> << "y" >>, severity |-> 2,
                          heldout_family_flag |-> TRUE ]),
      replace(ValidRow, [ example_id |-> << "y" >>, split |-> TEST_OOD_SEVERITY,
                          severity |-> 2 ]) }

(* rows with ids of their own that pass every per-row check: two source     *)
(* keys (p, and q given only by the image_path prefix) and two templates    *)
(* spread over train, val and test_id, and one row outside those splits     *)
SplitRow(id, split, source_image_id, image_path, template_id) ==
    replace(ValidRow, [ example_id |-> id, base_id |-> id, split |-> split,
                        source_image_id |-> source_image_id, image_path |-> image_path,
                        template_id |-> template_id ])

SplitRowPool ==
    { SplitRow(<< "a" >>, TRAIN, << "p" >>, << "p" >>, << "t" >>),
      SplitRow(<< "b" >>, VAL, << "p" >>, << "p" >>, << "t" >>),
      SplitRow(<< "c" >>, TEST_ID, << "p" >>, << "z" >>, << "u" >>),
      SplitRow(<< "d" >>, TRAIN, << >>, << "q", "|", "p" >>, << "u" >>),
      SplitRow(<< "e" >>, VAL, << >>, << "q", "|", "w" >>, << "t" >>),
      SplitRow(<< "g" >>, TEST_ID, << "q" >>, << "p" >>, << >>),
      replace(SplitRow(<< "f" >>, TEST_OOD_FAMILY, << "p" >>, << "p" >>, << "t" >>),
              [ family |-> "attribute_color", heldout_family_flag |-> TRUE ]) }

ValidatorInputs ==
    [ examples : SeqsUpTo(RowPool, MaxRows) \cup ListsUpTo(SplitRowPool, MaxSplitRows),
      heldout_family : { NoneValue, "attribute_color" },
      heldout_severity : { 1, 3 },
      enforce_template_disjointness : BOOLEAN ]

NoInput == [ examples |-> << >> ]

(* calls of derive_oracle_action: with one positional argument, as          *)
(* construction.py, transforms.py and the tests call it, with the keyword   *)
(* is_ambiguous, and with two positional arguments                          *)
LabelCalls ==
    [ args : { << x >> : x \in CorruptModality }, kwargs : { NoKwargs } ]
    \cup [ args : { << x >> : x \in CorruptModality },
           kwargs : { << << "is_ambiguous", b >> >> : b \in BOOLEAN } ]
    \cup [ args : { << e, x >> : e \in EvidenceModality, x \in CorruptModality },
           kwargs : { NoKwargs } \cup { << << "is_ambiguous", b >> >> : b \in BOOLEAN } ]

NoCall == [ args |-> << >>, kwargs |-> << >> ]

SampleRow(id, base_id, operator, family, split) ==
    replace(ValidRow, [ example_id |-> id, base_id |-> base_id, operator |-> operator,
                        family |-> family, split |-> split ])

(* rows handed to the sampler: groups of one and of two rows, a group     *)
(* without a clean row, three strata; five base ids at most, so that the  *)
(* exact quotas of _allocate_counts are the ones the floats give          *)
SampleRowPool ==
    { SampleRow(<< "a" >>, << "a" >>, "clean", "count", TRAIN),
      SampleRow(<< "a", "t" >>, << "a" >>, "text_edit", "count", TRAIN),
      SampleRow(<< "b" >>, << "b" >>, "clean", "count", TRAIN),
      SampleRow(<< "b", "v" >>, << "b" >>, "vision_corrupt", "count", TRAIN),
      SampleRow(<< "c" >>, << "c" >>, "clean", "attribute_color", TEST_OOD_FAMILY),
      SampleRow(<< "c", "t" >>, << "c" >>, "text_edit", "attribute_color", TEST_OOD_FAMILY),
      SampleRow(<< "d", "t" >>, << "d" >>, "text_edit", "count", VAL),
      SampleRow(<< "d", "s" >>, << "d" >>, "swap_easy", "existence", TRAIN),
      SampleRow(<< "e" >>, << "e" >>, "clean", "count", TRAIN) }

SamplerInputs ==
    [ examples : ListsUpTo(SampleRowPool, MaxSampleRows),
      base_sample_size : 0..MaxSampleSize,
      seed : { 1, 7 } ]

NoSample == [ selected |-> << >>, manifest |-> NoManifest ]

(* a ConflictExample with every field of the dataclass *)
FullExample(row, gold_answer, evidence_modality, metadata) ==
    row @@ [ gold_answer |-> gold_answer,
             evidence_modality |-> evidence_modality,
             metadata |-> metadata,
             record_version |-> DATASET_RECORD_VERSION ]

(* the examples serialized: rows of every pool, with each evidence         *)
(* modality, with and without metadata                                     *)
SchemaExamples ==
    { FullExample(replace(row, [ answer_type |-> a ]), << "2" >>, e, m) :
        row \in BasePool \cup RowPool \cup SplitRowPool \cup SampleRowPool,
        a \in { "integer", "unknown" },
        e \in EvidenceModality,
        m \in { << >>, << "swap_seed" >> } }

Absent == "absent"

AbsentId == << "#" >>

(* dicts read from files: legacy and canonical keys, alone and together,   *)
(* alias values, capitals, unknown values, missing keys                    *)
ParseChoices ==
    [ family : { Absent, "count", "Attribute" },
      conflict_type : { Absent, "attribute", "foo" },
      operator : { Absent, "swap_hard" },
      corruption_family : { Absent, "text_edit_attribute", "Vision_Blur" },
      corrupt_modality : { Absent, "vision" },
      corrupted_modality : { Absent, "TEXT" },
      split : { Absent, "test", "VAL" },
      answer_type : { Absent, " Integer " },
      oracle_action : { Absent, "Trust_Text" },
      gold_answer : { AbsentId, << "red" >> },
      example_id : { AbsentId, << "l", ":", ":", "r" >> } ]

ParseItem(picked) ==
    LET Present(k) ==
            IF k \in { "gold_answer", "example_id" } THEN picked[k] # AbsentId
            ELSE picked[k] # Absent
        chosen == [ k \in { k \in DOMAIN picked : Present(k) } |-> picked[k] ]
    IN  chosen @@ [ image_path |-> << "p" >>,
                    text_input |-> << "red", "car" >>,
                    question |-> << "k" >>,
                    severity |-> 1 ]

ParseItems == { ParseItem(picked) : picked \in ParseChoices }

NoExample == [ example_id |-> << >> ]

NoItem == [ example_id |-> << >> ]

NoParsed == [ raised |-> "unset" ]

(* calls of derive_reliability_target: severities below 0 and above        *)
(* max_severity, max_severity 0, the default 3 and others                  *)
ReliabilityCalls ==
    [ evidence_modality : EvidenceModality,
      corrupted_modality : CorruptModality,
      severity : (0 - 1)..MaxSeverityArg,
      max_severity : { 0, 1, 2, MAX_SEVERITY_DEFAULT, 4, 5 } ]

(* calls of text_edit: a base of each family, with and without a number,   *)
(* a colour or a negation in the text; vocabularies of three colours, of   *)
(* one colour and of none                                                  *)
EditExamples ==
    BasePool \cup
    { Example(<< "e" >>, << "p" >>, << "p" >>, "none", "unknown",
              << "red", "car", "parked" >>, << "k" >>, << "t" >>),
      Example(<< "f" >>, << "p" >>, << "p" >>, "attribute_color", "color",
              << "car", "parked" >>, << "k" >>, << "t" >>),
      Example(<< "g" >>, << "p" >>, << "p" >>, "attribute_color", "color",
              << "blue", "car", "red", "door" >>, << "k" >>, << "t" >>),
      Example(<< "h" >>, << "p" >>, << "p" >>, "count", "integer",
              << "dogs", "sit" >>, << "k" >>, << "t" >>),
      Example(<< "i" >>, << "p" >>, << "p" >>, "count", "integer",
              << "99", "dogs", "and", "ten", "cats" >>, << "k" >>, << "t" >>),
      Example(<< "j" >>, << "p" >>, << "p" >>, "count", "integer",
              << "ten", "dogs" >>, << "k" >>, << "t" >>),
      Example(<< "k" >>, << "p" >>, << "p" >>, "existence", "boolean",
              << "bicycle", "is", "not", "there" >>, << "k" >>, << "t" >>),
      Example(<< "l" >>, << "p" >>, << "p" >>, "existence", "boolean",
              << "bicycle", "there" >>, << "k" >>, << "t" >>) }

EditCalls ==
    [ example : EditExamples,
      color_vocab : { << "red", "blue", "green" >>, << "blue", "red" >>, << "red" >>, << >> },
      seed : { 1, 3, 7 } ]

NoArguments == [ seed |-> 0 ]

NoValue == [ example_id |-> << >> ]

-----------------------------------------------------------------------------
(* The state machine: an operation is chosen with its inputs, then runs *)

Idle ==
    /\ pc = "start"
    /\ suite = << >> /\ manifest = NoManifest /\ result = "none"
    /\ suite2 = << >> /\ manifest2 = NoManifest /\ result2 = "none"
    /\ vout = [ error |-> NoError, manifest |-> NoManifest ] /\ lout = "none"
    /\ sout = NoSample
    /\ parsed = NoParsed
    /\ pout = NoValue

InitBuild ==
    /\ Idle
    /\ op = "build"
    /\ bases \in ListsUpTo(BasePool, MaxBases)
    /\ cfg \in Configs
    /\ vin = NoInput /\ lin = NoCall /\ sin = NoInput
    /\ ein = NoExample /\ dumped = NoItem /\ pin = NoArguments

InitValidate ==
    /\ Idle
    /\ op = "validate"
    /\ vin \in ValidatorInputs
    /\ bases = << >> /\ cfg = NoConfig /\ lin = NoCall /\ sin = NoInput
    /\ ein = NoExample /\ dumped = NoItem /\ pin = NoArguments

InitLabel ==
    /\ Idle
    /\ op = "label"
    /\ lin \in LabelCalls
    /\ bases = << >> /\ cfg = NoConfig /\ vin = NoInput /\ sin = NoInput
    /\ ein = NoExample /\ dumped = NoItem /\ pin = NoArguments

InitSample ==
    /\ Idle
    /\ op = "sample"
    /\ sin \in SamplerInputs
    /\ bases = << >> /\ cfg = NoConfig /\ vin = NoInput /\ lin = NoCall
    /\ ein = NoExample /\ dumped = NoItem /\ pin = NoArguments

InitRoundTrip ==
    /\ Idle
    /\ op = "roundtrip"
    /\ ein \in SchemaExamples
    /\ dumped = NoItem
    /\ bases = << >> /\ cfg = NoConfig /\ vin = NoInput /\ lin = NoCall /\ sin = NoInput
    /\ pin = NoArguments

InitParse ==
    /\ Idle
    /\ op = "parse"
    /\ dumped \in ParseItems
    /\ ein = NoExample
    /\ bases = << >> /\ cfg = NoConfig /\ vin = NoInput /\ lin = NoCall /\ sin = NoInput
    /\ pin = NoArguments

InitReliability ==
    /\ Idle
    /\ op = "reliability"
    /\ pin \in ReliabilityCalls
    /\ bases = << >> /\ cfg = NoConfig /\ vin = NoInput /\ lin = NoCall /\ sin = NoInput
    /\ ein = NoExample /\ dumped = NoItem

InitEdit ==
    /\ Idle
    /\ op = "edit"
    /\ pin \in EditCalls
    /\ bases = << >> /\ cfg = NoConfig /\ vin = NoInput /\ lin = NoCall /\ sin = NoInput
    /\ ein = NoExample /\ dumped = NoItem

InitSchema == InitRoundTrip \/ InitParse

Init ==
    \/ InitBuild \/ InitValidate \/ InitLabel \/ InitSample \/ InitSchema
    \/ InitReliability \/ InitEdit

(* build_conflict_suite(base_examples, **cfg), first run *)
Build ==
    /\ op = "build" /\ pc = "start"
    /\ \E r \in build_conflict_suite(bases, cfg) :
          /\ suite' = r.rows
          /\ manifest' = r.manifest
          /\ result' = IF r.raised = "none" THEN "ok" ELSE r.raised
    /\ pc' = "built"
    /\ UNCHANGED << op, bases, cfg, suite2, manifest2, result2, vin, vout, lin, lout,
                    sin, sout, ein, dumped, parsed, pin, pout >>

(* build_conflict_suite on the same arguments, second run *)
Rebuild ==
    /\ op = "build" /\ pc = "built"
    /\ \E r \in build_conflict_suite(bases, cfg) :
          /\ suite2' = r.rows
          /\ manifest2' = r.manifest
          /\ result2' = IF r.raised = "none" THEN "ok" ELSE r.raised
    /\ pc' = "rebuilt"
    /\ UNCHANGED << op, bases, cfg, suite, manifest, result, vin, vout, lin, lout,
                    sin, sout, ein, dumped, parsed, pin, pout >>

(* validate_split_integrity(examples, heldout_family, heldout_severity, enforce) *)
Validate ==
    /\ op = "validate" /\ pc = "start"
    /\ vout' = validate_split_integrity(vin.examples, vin.heldout_family,
                                        vin.heldout_severity,
                                        vin.enforce_template_disjointness)
    /\ pc' = "validated"
    /\ UNCHANGED << op, bases, cfg, suite, manifest, result,
                    suite2, manifest2, result2, vin, lin, lout, sin, sout,
                    ein, dumped, parsed, pin, pout >>

(* one call of derive_oracle_action with the arguments lin *)
Label ==
    /\ op = "label" /\ pc = "start"
    /\ lout' = call_derive_oracle_action(lin.args, lin.kwargs)
    /\ pc' = "labelled"
    /\ UNCHANGED << op, bases, cfg, suite, manifest, result,
                    suite2, manifest2, result2, vin, vout, lin, sin, sout,
                    ein, dumped, parsed, pin, pout >>

(* sample_pilot_by_base(examples, base_sample_size=k, seed=seed) *)
Sample ==
    /\ op = "sample" /\ pc = "start"
    /\ sout' = sample_pilot_by_base(sin.examples, sin.base_sample_size, sin.seed)
    /\ pc' = "sampled"
    /\ UNCHANGED << op, bases, cfg, suite, manifest, result,
                    suite2, manifest2, result2, vin, vout, lin, lout, sin,
                    ein, dumped, parsed, pin, pout >>

(* row = ex.to_dict() *)
ToDict ==
    /\ op = "roundtrip" /\ pc = "start"
    /\ dumped' = to_dict(ein)
    /\ pc' = "dumped"
    /\ UNCHANGED << op, bases, cfg, suite, manifest, result, suite2, manifest2, result2,
                    vin, vout, lin, lout, sin, sout, ein, parsed, pin, pout >>

(* ConflictExample.from_dict(row), on a dict just written or on one read *)
FromDict ==
    /\ \/ op = "roundtrip" /\ pc = "dumped"
       \/ op = "parse" /\ pc = "start"
    /\ parsed' = from_dict(dumped)
    /\ pc' = "parsed"
    /\ UNCHANGED << op, bases, cfg, suite, manifest, result, suite2, manifest2, result2,
                    vin, vout, lin, lout, sin, sout, ein, dumped, pin, pout >>

NextSchema == ToDict \/ FromDict

(* derive_reliability_target(evidence_modality, corrupted_modality, severity, max_severity) *)
Reliability ==
    /\ op = "reliability" /\ pc = "start"
    /\ pout' = derive_reliability_target(pin.evidence_modality, pin.corrupted_modality,
                                         pin.severity, pin.max_severity)
    /\ pc' = "derived"
    /\ UNCHANGED << op, bases, cfg, suite, manifest, result, suite2, manifest2, result2,
                    vin, vout, lin, lout, sin, sout, ein, dumped, parsed, pin >>

(* text_edit(example, color_vocab=color_vocab, seed=seed) *)
TextEdit ==
    /\ op = "edit" /\ pc = "start"
    /\ pout' = text_edit(pin.example, pin.color_vocab, pin.seed)
    /\ pc' = "edited"
    /\ UNCHANGED << op, bases, cfg, suite, manifest, result, suite2, manifest2, result2,
                    vin, vout, lin, lout, sin, sout, ein, dumped, parsed, pin >>

Next ==
    \/ Build \/ Rebuild \/ Validate \/ Label \/ Sample \/ ToDict \/ FromDict
    \/ Reliability \/ TextEdit

Spec == Init /\ [][Next]_vars

NextBuild == Build \/ Rebuild

SpecBuild == InitBuild /\ [][NextBuild]_vars

SpecValidate == InitValidate /\ [][Validate]_vars

SpecLabel == InitLabel /\ [][Label]_vars

SpecSample == InitSample /\ [][Sample]_vars

SpecSchema == InitSchema /\ [][NextSchema]_vars

SpecReliability == InitReliability /\ [][Reliability]_vars

SpecEdit == InitEdit /\ [][TextEdit]_vars

-----------------------------------------------------------------------------
(* Properties *)

(* the first run of build_conflict_suite has returned a suite *)
Returned == op = "build" /\ pc \in { "built", "rebuilt" } /\ result = "ok"

Rows == 1..Len(suite)

FamilyRule(ex) == ex.family = cfg.held_out_family

SeverityRule(ex) == ex.corrupt_modality # "none" /\ ex.severity >= cfg.held_out_severity

HardSwapRule(ex) ==
    cfg.enable_ood_hard_swap /\ ex.operator = "swap_hard" /\ ex.hard_swap_flag

ExpectedAction(corrupt_modality, is_ambiguous) ==
    IF is_ambiguous THEN "abstain"
    ELSE CASE corrupt_modality = "none" -> "require_agreement"
           [] corrupt_modality = "text" -> "trust_vision"
           [] corrupt_modality = "vision" -> "trust_text"
           [] corrupt_modality = "both" -> "abstain"

(* C8: derive_oracle_action(corrupt_modality, is_ambiguous=False) returns  *)
(* abstain when is_ambiguous is true, else require_agreement for none,     *)
(* trust_vision for text, trust_text for vision and abstain for both       *)
C8_OracleActionMapping ==
    ( /\ op = "label" /\ pc = "labelled"
      /\ Len(lin.args) = 1 )
    => lout = ExpectedAction(lin.args[1],
                             IF lin.kwargs = NoKwargs THEN FALSE ELSE lin.kwargs[1][2])

(* C9: the oracle_action of every row of a returned suite is the action    *)
(* the mapping gives for the row's own corrupt_modality                    *)
C9_RowOracleAction ==
    Returned =>
        \A i \in Rows :
            suite[i].oracle_action = ExpectedAction(suite[i].corrupt_modality, FALSE)

SeverityMismatch(ex) == (ex.severity = 0) # (ex.corrupt_modality = "none")

(* C10: validate_split_integrity raises IntegrityError naming an offending *)
(* example_id when a row has corrupt_modality none and severity other than *)
(* 0, and also when a row has another corrupt_modality and severity 0      *)
C10_RejectsSeverityMismatch ==
    ( /\ op = "validate" /\ pc = "validated"
      /\ \E i \in 1..Len(vin.examples) : SeverityMismatch(vin.examples[i]) )
    => /\ vout.error.raised = "IntegrityError"
       /\ vout.error.subject \in { vin.examples[i].example_id : i \in 1..Len(vin.examples) }

(* validate_split_integrity has run on vin *)
Validated == op = "validate" /\ pc = "validated"

VRows == 1..Len(vin.examples)

(* C11: validate_split_integrity raises an integrity violation for every   *)
(* list in which two rows share an example_id, and returns no manifest     *)
C11_RejectsDuplicateIds ==
    ( /\ Validated
      /\ \E i, j \in VRows : i # j /\ vin.examples[i].example_id = vin.examples[j].example_id )
    => /\ vout.error.raised = "IntegrityError"
       /\ vout.manifest = NoManifest

(* two rows that pass every other check share an id and the call raised    *)
(* on the repeated id                                                      *)
C11_Witness ==
    /\ Validated
    /\ Len(vin.examples) = 2
    /\ vin.examples[1].example_id = vin.examples[2].example_id
    /\ vin.examples[1].split = vin.examples[2].split
    /\ vout.error.message = "Duplicate example_id"
    /\ vout.error.subject = vin.examples[2].example_id

(* every row of vin passes the per-row checks of the loop *)
RowsPass ==
    row_pass(vin.examples, 1, {}, vin.heldout_family, vin.heldout_severity).raised = "none"

(* the source key of a row: source_image_id, or the image_path prefix *)
KeyOfRow(ex) ==
    IF ex.source_image_id # << >> THEN ex.source_image_id ELSE SplitBar0(ex.image_path)

KeysOfSplit(split) ==
    { KeyOfRow(vin.examples[i]) : i \in { j \in VRows : vin.examples[j].split = split } }

SharedKeys(pair) == KeysOfSplit(pair[1]) \cap KeysOfSplit(pair[2])

PairOrder == << << TRAIN, VAL >>, << TRAIN, TEST_ID >>, << VAL, TEST_ID >> >>

(* C12: for a list whose rows pass the per-row checks, an image-source     *)
(* leakage violation is raised exactly when a source key occurs in two of  *)
(* train, val, test_id; it names the first overlapping pair in the order   *)
(* (train,val), (train,test_id), (val,test_id) and the smallest key the    *)
(* pair shares; sharing with an OOD split is no violation                  *)
C12_ImageLeakage ==
    (Validated /\ RowsPass) =>
        /\ (vout.error.message = "Image-source leakage")
               <=> (\E k \in 1..3 : SharedKeys(PairOrder[k]) # {})
        /\ vout.error.message = "Image-source leakage" =>
              /\ vout.error.raised = "IntegrityError"
              /\ \E k \in 1..3 :
                    /\ vout.error.between = PairOrder[k]
                    /\ \A l \in 1..(k - 1) : SharedKeys(PairOrder[l]) = {}
                    /\ vout.error.subject \in SharedKeys(PairOrder[k])
                    /\ \A y \in SharedKeys(PairOrder[k]) :
                          y = vout.error.subject \/ StrLess(vout.error.subject, y)

(* a leakage was raised for a pair that is not the only overlapping one,   *)
(* in a list whose first rows are not the offending ones                   *)
C12_Witness ==
    /\ Validated /\ RowsPass
    /\ vout.error.message = "Image-source leakage"
    /\ vout.error.between = << TRAIN, TEST_ID >>
    /\ SharedKeys(<< VAL, TEST_ID >>) # {}
    /\ vin.examples[1].split = VAL

TemplatesOfSplit(split) ==
    { vin.examples[i].template_id :
        i \in { j \in VRows : vin.examples[j].split = split } } \ { << >> }

TemplateShared ==
    \E k \in 1..3 : TemplatesOfSplit(PairOrder[k][1]) \cap TemplatesOfSplit(PairOrder[k][2]) # {}

(* C13: for a list that is otherwise valid and has one template_id on rows *)
(* of two in-distribution splits, a manifest is returned when              *)
(* enforce_template_disjointness is false and a violation is raised when   *)
(* it is true                                                              *)
C13_TemplateCheckOptional ==
    ( /\ Validated /\ RowsPass
      /\ \A k \in 1..3 : SharedKeys(PairOrder[k]) = {}
      /\ TemplateShared )
    => IF vin.enforce_template_disjointness
       THEN vout.error.raised = "IntegrityError" /\ vout.manifest = NoManifest
       ELSE vout.error.raised = "none" /\ vout.manifest.total_examples = Len(vin.examples)

(* a manifest was returned for a list with a template on two splits *)
C13_Witness ==
    /\ Validated /\ RowsPass
    /\ \A k \in 1..3 : SharedKeys(PairOrder[k]) = {}
    /\ TemplateShared
    /\ ~vin.enforce_template_disjointness
    /\ vout.error.raised = "none"
    /\ Len(vin.examples) >= 2

FlagInIdSplit(ex) ==
    ex.split \in { TRAIN, VAL, TEST_ID } /\ (ex.heldout_family_flag \/ ex.heldout_severity_flag)

BadOodFamilyRow(ex) ==
    ex.split = TEST_OOD_FAMILY /\ (ex.family # vin.heldout_family \/ ~ex.heldout_family_flag)

BadOodSeverityRow(ex) ==
    /\ ex.split = TEST_OOD_SEVERITY
    /\ \/ ex.corrupt_modality = "none"
       \/ ex.severity < vin.heldout_severity
       \/ ~ex.heldout_severity_flag

(* C14, as stated: on every call a violation is raised when the list has   *)
(* (a) a row of train, val or test_id with an OOD flag set, (b) a row of   *)
(* test_ood_family of another family or without heldout_family_flag, or    *)
(* (c) a row of test_ood_severity that is clean, below held_out_severity   *)
(* or without heldout_severity_flag                                        *)
C14_OodInvariantsEveryCall ==
    ( /\ Validated
      /\ \E i \in VRows :
            \/ FlagInIdSplit(vin.examples[i])
            \/ BadOodFamilyRow(vin.examples[i])
            \/ BadOodSeverityRow(vin.examples[i]) )
    => vout.error.raised = "IntegrityError"

(* C14, amended: (a) and (c) are enforced on every call, (b) on every call *)
(* that passes a held-out family                                           *)
C14_OodInvariants ==
    ( /\ Validated
      /\ \E i \in VRows :
            \/ FlagInIdSplit(vin.examples[i])
            \/ (vin.heldout_family # NoneValue /\ BadOodFamilyRow(vin.examples[i]))
            \/ BadOodSeverityRow(vin.examples[i]) )
    => vout.error.raised = "IntegrityError"

(* a call with a held-out family raised on an OOD-severity row whose only  *)
(* fault is the missing flag                                               *)
C14_Witness ==
    /\ Validated
    /\ vin.heldout_family # NoneValue
    /\ vout.error.message = "OOD-severity example missing heldout_severity_flag"
    /\ \E i \in VRows : BadOodSeverityRow(vin.examples[i])

SplitsPresent == { vin.examples[i].split : i \in VRows }

IdsInSplit(split) ==
    { vin.examples[i].example_id : i \in { j \in VRows : vin.examples[j].split = split } }

RECURSIVE SumOver(_, _)
SumOver(f, S) ==
    IF S = {} THEN 0
    ELSE LET x == CHOOSE x \in S : TRUE IN f[x] + SumOver(f, S \ { x })

(* C15: on success hashes and counts are keyed by the splits that have a   *)
(* row, counts[s] is the number of rows of s, the counts sum to            *)
(* total_examples, which is the length of the input, hashes[s] depends on  *)
(* the set of ids of s only, and every reordering of the rows gives the    *)
(* same manifest                                                           *)
C15_ManifestShape ==
    (Validated /\ vout.error.raised = "none") =>
        LET m == vout.manifest
        IN  /\ DOMAIN m.hashes = SplitsPresent
            /\ DOMAIN m.counts = SplitsPresent
            /\ \A s \in SplitsPresent :
                  /\ m.counts[s] = Cardinality({ i \in VRows : vin.examples[i].split = s })
                  /\ \A e \in Enumerations(IdsInSplit(s)) :
                        m.hashes[s] = compute_manifest_hash(e)
            /\ SumOver(m.counts, SplitsPresent) = m.total_examples
            /\ m.total_examples = Len(vin.examples)
            /\ \A perm \in Enumerations(VRows) :
                  validate_split_integrity([ i \in VRows |-> vin.examples[perm[i]] ],
                                           vin.heldout_family, vin.heldout_severity,
                                           vin.enforce_template_disjointness).manifest = m

(* a manifest was returned for rows of two splits, two of them in one      *)
(* split with the larger id first                                          *)
C15_Witness ==
    /\ Validated /\ vout.error.raised = "none"
    /\ Cardinality(SplitsPresent) >= 2
    /\ \E i, j \in VRows :
          /\ i < j
          /\ vin.examples[i].split = vin.examples[j].split
          /\ StrLess(vin.examples[j].example_id, vin.examples[i].example_id)

(* the construction parameters of build_conflict_suite *)
ConstructionParameters ==
    { "seed", "held_out_family", "held_out_severity", "split_ratios",
      "vision_corruption_type", "vision_severities", "color_vocab",
      "hard_swap_jaccard_min", "hard_swap_jaccard_max", "include_both_variants",
      "enable_ood_hard_swap", "enforce_template_disjointness" }

(* C16: the config entry of a returned manifest has every construction     *)
(* parameter of the call, color_vocab included, with the value passed      *)
C16_ConfigEchoesAll ==
    Returned =>
        \A name \in ConstructionParameters :
            /\ name \in DOMAIN manifest.config
            /\ manifest.config[name] = cfg[name]

Sampled == op = "sample" /\ pc = "sampled"

InputBaseIds == { sin.examples[i].base_id : i \in 1..Len(sin.examples) }

SelectedBaseIds == { sout.selected[i].base_id : i \in 1..Len(sout.selected) }

(* C17: the rows returned by sample_pilot_by_base come from exactly        *)
(* min(base_sample_size, number of base_id groups of the input) distinct   *)
(* base ids                                                                *)
C17_SelectedBaseCount ==
    Sampled =>
        Cardinality(SelectedBaseIds)
            = Min(sin.base_sample_size, Cardinality(InputBaseIds))

(* a sample of two or more bases, fewer than the input has, was drawn from *)
(* an input of several strata whose shares are not whole numbers           *)
C17_Witness ==
    /\ Sampled
    /\ sin.base_sample_size >= 2
    /\ Cardinality(InputBaseIds) > sin.base_sample_size
    /\ Cardinality(DOMAIN sout.manifest.strata_counts_full) >= 2
    /\ Cardinality(SelectedBaseIds) = sin.base_sample_size
    /\ \E k \in DOMAIN sout.manifest.strata_counts_full :
          (sout.manifest.strata_counts_full[k] * sin.base_sample_size)
              % Cardinality(InputBaseIds) # 0

(* C18: base groups are atomic: every input row whose base_id has a row in *)
(* the returned subset is in the subset, and the subset has as many rows   *)
(* of that base_id as the input                                            *)
C18_GroupsAtomic ==
    Sampled =>
        \A b \in SelectedBaseIds :
            /\ \A i \in 1..Len(sin.examples) :
                  sin.examples[i].base_id = b => sin.examples[i] \in Range(sout.selected)
            /\ Cardinality({ i \in 1..Len(sout.selected) : sout.selected[i].base_id = b })
                 = Cardinality({ i \in 1..Len(sin.examples) : sin.examples[i].base_id = b })

(* a base with two rows was selected whole while another base was left out *)
C18_Witness ==
    /\ Sampled
    /\ \E b \in SelectedBaseIds :
          Cardinality({ i \in 1..Len(sin.examples) : sin.examples[i].base_id = b }) = 2
    /\ InputBaseIds \ SelectedBaseIds # {}

DistinctBaseIds ==
    \A i, j \in DOMAIN bases : i # j => bases[i].base_id # bases[j].base_id

RowsOf(base_id, operator) ==
    { i \in Rows : suite[i].base_id = base_id /\ suite[i].operator = operator }

(* one row of each kind for the base: clean, swap_easy, swap_hard,         *)
(* text_edit, one vision_corrupt row per distinct configured severity, and *)
(* a both row exactly when include_both_variants is set                    *)
AllVariants(base_id) ==
    /\ \A operator \in { "clean", "swap_easy", "swap_hard", "text_edit" } :
          Cardinality(RowsOf(base_id, operator)) = 1
    /\ \A severity \in Range(cfg.vision_severities) :
          Cardinality({ i \in RowsOf(base_id, "vision_corrupt") :
                          suite[i].severity = severity }) = 1
    /\ Cardinality(RowsOf(base_id, "vision_corrupt"))
         = Cardinality(Range(cfg.vision_severities))
    /\ Cardinality(RowsOf(base_id, "both")) = (IF cfg.include_both_variants THEN 1 ELSE 0)

InBand(score) ==
    /\ ~FracLess(score, cfg.hard_swap_jaccard_min)
    /\ ~FracLess(cfg.hard_swap_jaccard_max, score)

(* donor is a base example the row of normalized base example base can     *)
(* take its hard-swap text from                                            *)
HardDonor(base, donor) ==
    /\ donor.family = base.family /\ donor.answer_type = base.answer_type
    /\ donor.base_id # base.base_id
    /\ donor.source_image_id # base.source_image_id
    /\ InBand(_jaccard_tokens(_noun_like_tokens(base.text_input),
                              _noun_like_tokens(donor.text_input)))

Built == op = "build" /\ pc \in { "built", "rebuilt" }

(* the donor search of base example k comes back empty although there is   *)
(* another base example to swap with                                       *)
NoHardDonor(k) ==
    /\ \E d \in DOMAIN bases : bases[d].base_id # bases[k].base_id
    /\ ~\E d \in DOMAIN bases :
           HardDonor(normalize_base(bases[k]), normalize_base(bases[d]))

RoundTripped == op = "roundtrip" /\ pc = "parsed"

(* other values under the three legacy alias keys of a written dict *)
LegacyOverrides ==
    [ conflict_type : { "relation", "count" },
      corrupted_modality : { "both", "none" },
      corruption_family : { "corrupt", "clean" } ]

(* C22: from_dict(ex.to_dict()) is ex, field by field, and the canonical   *)
(* keys of the written dict win over the legacy alias keys: whatever the   *)
(* values under conflict_type, corrupted_modality and corruption_family,   *)
(* the dict parses to the same example                                     *)
C22_RoundTrip ==
    RoundTripped =>
        /\ parsed.raised = "none"
        /\ parsed.example = ein
        /\ LegacyKeys \subseteq DOMAIN dumped
        /\ \A legacy \in LegacyOverrides : from_dict(legacy @@ dumped) = parsed

(* a corrupted row of an OOD split, without source_image_id and with       *)
(* metadata, went through to_dict and from_dict                            *)
C22_Witness ==
    /\ RoundTripped
    /\ ein.corrupt_modality = "vision"
    /\ ein.family = "count"
    /\ ein.split = TEST_OOD_SEVERITY
    /\ ein.heldout_severity_flag
    /\ ein.metadata # << >>
    /\ ein.evidence_modality = "vision_required"

Derived == op = "reliability" /\ pc = "derived"

(* C23: with corrupt_modality VISION and evidence_modality and             *)
(* max_severity fixed, r_v does not grow with the severity: the r_v        *)
(* returned is at least the r_v of every larger severity and at most the   *)
(* r_v of every smaller one                                                *)
C23_MonotoneInSeverity ==
    (Derived /\ pin.corrupted_modality = "vision") =>
        \A severity \in (0 - 1)..MaxSeverityArg :
            LET other == derive_reliability_target(pin.evidence_modality, "vision",
                                                   severity, pin.max_severity)
            IN  /\ pin.severity <= severity => pout.r_v >= other.r_v
                /\ severity <= pin.severity => other.r_v >= pout.r_v

(* a call whose r_v is strictly below that of the severity before it and   *)
(* strictly above 0.05                                                     *)
C23_Witness ==
    /\ Derived /\ pin.corrupted_modality = "vision"
    /\ pin.evidence_modality = "vision_required"
    /\ pin.max_severity = MAX_SEVERITY_DEFAULT
    /\ pin.severity = 2
    /\ pout.r_v = 3333
    /\ derive_reliability_target("vision_required", "vision", 1, MAX_SEVERITY_DEFAULT).r_v
         = 6667

(* base * (1 - max(0.2, severity / max_severity)) floored at 0.05, in     *)
(* ten-thousandths, for max_severity above 0                               *)
PenalizedValue(base, severity, max_severity) ==
    IF 5 * severity >= max_severity
    THEN Penalize(base, severity, max_severity)
    ELSE Penalize(base, 1, 5)

(* C24: the value of each corrupted side is its base value penalized, the  *)
(* vision value for VISION, the text value for TEXT and both values for    *)
(* BOTH; a penalized value is never below 0.05 and the value of a side     *)
(* that is not corrupted is its base value                                 *)
C24_PenalizesCorruptedSides ==
    (Derived /\ pin.max_severity > 0) =>
        LET base == _base_reliability(pin.evidence_modality)
            penalized_v == PenalizedValue(base[1], pin.severity, pin.max_severity)
            penalized_t == PenalizedValue(base[2], pin.severity, pin.max_severity)
        IN  /\ pout.r_v = (IF pin.corrupted_modality \in { "vision", "both" }
                           THEN penalized_v ELSE base[1])
            /\ pout.r_t = (IF pin.corrupted_modality \in { "text", "both" }
                           THEN penalized_t ELSE base[2])
            /\ penalized_v >= Unit \div 20 /\ penalized_t >= Unit \div 20

SourcesIn(source_split, split) ==
    { source \in DOMAIN source_split : source_split[source] = split }

WithBookkeepingOf(ex, other) ==
    replace(ex, [ split |-> other.split,
                  heldout_family_flag |-> other.heldout_family_flag,
                  heldout_severity_flag |-> other.heldout_severity_flag ])

FailsCheck(i, check) ==
    LET ex == vin.examples[i]
    IN  CASE check = 1 -> \E j \in 1..(i - 1) : vin.examples[j].example_id = ex.example_id
          [] check = 2 -> ex.corrupt_modality = "none" /\ ex.severity # 0
          [] check = 3 -> FlagInIdSplit(ex)
          [] check = 4 -> vin.heldout_family # NoneValue /\ BadOodFamilyRow(ex)
          [] check = 5 -> BadOodSeverityRow(ex)

MessagesOfCheck(check) ==
    CASE check = 1 -> { "Duplicate example_id" }
      [] check = 2 -> { "Severity must be 0 for non-corrupted examples" }
      [] check = 3 -> { "heldout_family_flag cannot be true in ID splits",
                        "heldout_severity_flag cannot be true in ID splits" }
      [] check = 4 -> { "OOD-family split contains non-heldout family example",
                        "OOD-family example missing heldout_family_flag" }
      [] check = 5 -> { "OOD-severity split has invalid example",
                        "OOD-severity example missing heldout_severity_flag" }

FailingRows == { i \in VRows : \E check \in 1..5 : FailsCheck(i, check) }

(* C27: the error raised is for the first row, in list order, that fails   *)
(* a per-row check, and for the first check that row fails in the order    *)
(* duplicate id, severity of a non-corrupted row, OOD flags in an ID       *)
(* split, OOD-family membership and flag, OOD-severity threshold and flag; *)
(* it names that row. Leakage is reported only when no row fails, and      *)
(* image-source leakage before template leakage                            *)
C27_FirstViolation ==
    Validated =>
        IF FailingRows # {}
        THEN LET i == CHOOSE i \in FailingRows : \A j \in FailingRows : i <= j
                 check == CHOOSE c \in 1..5 :
                              FailsCheck(i, c) /\ \A d \in 1..(c - 1) : ~FailsCheck(i, d)
             IN  /\ vout.error.raised = "IntegrityError"
                 /\ vout.error.subject = vin.examples[i].example_id
                 /\ vout.error.message \in MessagesOfCheck(check)
        ELSE IF \E k \in 1..3 : SharedKeys(PairOrder[k]) # {}
        THEN vout.error.message = "Image-source leakage"
        ELSE IF vin.enforce_template_disjointness /\ TemplateShared
        THEN vout.error.message = "Template leakage"
        ELSE vout.error.raised = "none"

(* the checks as C27 words them: the OOD-family check on every call *)
FailsStatedCheck(i, check) ==
    IF check = 4 THEN BadOodFamilyRow(vin.examples[i]) ELSE FailsCheck(i, check)

StatedFailingRows == { i \in VRows : \E check \in 1..5 : FailsStatedCheck(i, check) }

(* C27 as stated, the OOD-family membership and flag check counted on      *)
(* every call, a held-out family passed or not: the error is for the first *)
(* row that fails one of the five checks and for its first failing check   *)
C27_FirstViolationEveryCall ==
    Validated =>
        IF StatedFailingRows # {}
        THEN LET i == CHOOSE i \in StatedFailingRows : \A j \in StatedFailingRows : i <= j
                 check == CHOOSE c \in 1..5 :
                              FailsStatedCheck(i, c) /\ \A d \in 1..(c - 1) : ~FailsStatedCheck(i, d)
             IN  /\ vout.error.raised = "IntegrityError"
                 /\ vout.error.subject = vin.examples[i].example_id
                 /\ vout.error.message \in MessagesOfCheck(check)
        ELSE IF \E k \in 1..3 : SharedKeys(PairOrder[k]) # {}
        THEN vout.error.message = "Image-source leakage"
        ELSE IF vin.enforce_template_disjointness /\ TemplateShared
        THEN vout.error.message = "Template leakage"
        ELSE vout.error.raised = "none"

(* the second row of a list is a repeated id and also fails a later check, *)
(* the first row fails none, and the error is the repeated id              *)
C27_Witness ==
    /\ Validated
    /\ Len(vin.examples) = 2
    /\ FailingRows = { 2 }
    /\ FailsCheck(2, 1) /\ FailsCheck(2, 2)
    /\ vout.error.message = "Duplicate example_id"

(* rows that pass every check share an image source and a template across *)
(* two splits, the template check is on, and the image leakage is reported *)
C27_WitnessLeakage ==
    /\ Validated
    /\ FailingRows = {}
    /\ vin.enforce_template_disjointness /\ TemplateShared
    /\ vout.error.message = "Image-source leakage"

SampleTarget == Min(sin.base_sample_size, Cardinality(InputBaseIds))

FloorShare(size, total, n) == (size * total) \div n

CeilShare(size, total, n) ==
    IF (size * total) % n = 0 THEN (size * total) \div n ELSE (size * total) \div n + 1

(* C28: with a target T = min(base_sample_size, number of groups) of one  *)
(* or more and strata sizes summing to N, every stratum's count is at     *)
(* least floor(size*T/N), at most ceil(size*T/N) and at most its size,    *)
(* the counts sum to T, and each stratum contributes as many selected     *)
(* bases as its count                                                     *)
C28_AllocationWithinShares ==
    (Sampled /\ SampleTarget >= 1) =>
        LET base_ids == BaseIdsInOrder(sin.examples)
            keys == StrataKeys(sin.examples, base_ids)
            full == sout.manifest.strata_counts_full
            sizes == [ i \in 1..Len(keys) |-> full[keys[i]] ]
            n == SumSeq(sizes)
            alloc == _allocate_counts(SampleTarget, sizes)
        IN  /\ n = Cardinality(InputBaseIds)
            /\ \A i \in 1..Len(sizes) :
                  /\ alloc[i] >= FloorShare(sizes[i], SampleTarget, n)
                  /\ alloc[i] <= CeilShare(sizes[i], SampleTarget, n)
                  /\ alloc[i] <= sizes[i]
                  /\ sout.manifest.strata_counts_selected[keys[i]] = alloc[i]
            /\ SumSeq(alloc) = SampleTarget

(* three strata with shares that are not whole: one stratum got a leftover *)
(* slot above its floor and another of the same share stayed at its floor  *)
C28_Witness ==
    /\ Sampled
    /\ SampleTarget >= 2
    /\ LET full == sout.manifest.strata_counts_full
           got == sout.manifest.strata_counts_selected
           n == Cardinality(InputBaseIds)
       IN  /\ Cardinality(DOMAIN full) >= 3
           /\ \E k, l \in DOMAIN full :
                 /\ k # l
                 /\ got[k] = CeilShare(full[k], SampleTarget, n)
                 /\ got[k] > FloorShare(full[k], SampleTarget, n)
                 /\ got[l] = FloorShare(full[l], SampleTarget, n)
                 /\ got[l] < CeilShare(full[l], SampleTarget, n)
           /\ \E k \in DOMAIN full : full[k] >= 2

C29_RaiseReachable ==
    /\ Built /\ result # "ok"
    /\ DistinctBaseIds => cfg.enforce_template_disjointness

Edited == op = "edit" /\ pc = "edited"

C30_UneditedCalls ==
    (Edited /\ pout.text_input = pin.example.text_input) =>
        \/ pin.example.family \notin { "count", "existence", "attribute_color" }
        \/ /\ pin.example.family = "attribute_color"
           /\ Len(pin.color_vocab) = 1
           /\ pin.color_vocab[1] \in Range(pin.example.text_input)

====
